---- MODULE Spec2Model ----
(***************************************************************************)
(* The join job of the local MapReduce pipeline: the activity-side and     *)
(* profile-side join mappers with their salters, the concatenation and     *)
(* global sort of JoinJob.execute, and the join reducer (JoinReducer) run  *)
(* line by line over its standard input; the skew detector                *)
(* (skew_detection.py) over the lines of its standard input; and the       *)
(* workflow of WorkflowRunner.run, whose stages are external processes.    *)
(*                                                                         *)
(* A string is a sequence of character codes (ASCII), so that strip,       *)
(* split, formatting and the sort order are computed as Python computes    *)
(* them.  None is the value None below, which is no string.                *)
(***************************************************************************)
EXTENDS Integers, Sequences, FiniteSets, TLC

VARIABLES
    pc,               \* position of the run
    skewed_keys_env,  \* value of the environment variable 'skewed.keys'
    activity_input,   \* the activity dataset, line by line
    profile_input,    \* the profile dataset, line by line
    activity_output,  \* standard output of the activity mapper (text)
    profile_output,   \* standard output of the profile mapper (text)
    sorted_lines,     \* JoinJob.execute: sorted(combined.split('\n'))
    reducer_input,    \* the lines the reducer reads from its standard input
    pos,              \* number of lines the reducer has read
    current_user,     \* JoinReducer.current_user
    current_record,   \* JoinReducer.current_record: <<>> is None, <<r>> a UserRecord
    reducer_output,   \* the lines the reducer has printed
    input_lines,      \* skew_detection main: lines = sys.stdin.readlines()
    lines_read,       \* number of lines analyze_key_distribution has counted
    key_counter,      \* key_counter, a Counter: <<[key, count], ...>> in
                      \* insertion order
    total_records,    \* total_records
    analysis,         \* the report main prints: <<>> before, <<report>> after
    args_job,         \* WorkflowRunner: args.job
    step,             \* number of steps of run() begun so far
    job_pc,           \* the stage the step's execute() is about to run
    success,          \* run(): success
    run_skewed_keys,  \* run(): skewed_keys
    files,            \* the files of data/ and output/: None if absent
    stage_stdout,     \* JoinJob.execute: activity_output
    job_sorted_lines, \* execute(): sorted_lines
    returncodes,      \* return codes of the stage processes of the step
    events,           \* calls of and returns from the steps, in order
    exit_status,      \* what run() returned: None before
    running,          \* the stage processes started and not yet exited
    started,          \* the processes the step at hand started
    stage_failed,     \* some stage process of the run exited non-zero
    job_results,      \* what the execute() calls of the run returned
    agg_input,        \* the lines the aggregation mapper reads
    agg_read,         \* number of lines the aggregation mapper has read
    user_action_counts, \* aggregation mapper: user_action_counts, in
                      \* insertion order
    agg_mapper_output, \* standard output of the aggregation mapper (text)
    agg_sorted_lines, \* execute(): sorted_lines, the reducer's input
    agg_pos,          \* number of lines the aggregation reducer has read
    agg_current_user, \* aggregation reducer: current_user
    agg_output,       \* the lines the aggregation reducer has printed
    trend_input,      \* the lines the trending mapper reads
    trend_mapper_output, \* standard output of the trending mapper (text)
    trend_sorted_lines, \* execute(): sorted_lines, the input of the combiner
                      \* and then of the reducer
    trend_combiner_output, \* standard output of the trending combiner (text)
    trend_pos,        \* number of lines the trending reducer has read
    content_data,     \* TrendingReducer.content_data: <<content_id,
                      \* engagement>> pairs (all_engagements is its second
                      \* column)
    error_count,      \* TrendingReducer.error_count
    trend_output,     \* the lines the trending reducer has printed
    clean_input,      \* the lines the cleansing mapper reads
    clean_read,       \* number of lines the cleansing mapper has read
    metrics,          \* DataQualityCounters.metrics
    clean_output      \* the records the cleansing mapper has printed

joinVars == <<skewed_keys_env, activity_input, profile_input, activity_output,
              profile_output, sorted_lines, reducer_input, pos, current_user,
              current_record, reducer_output>>

detectorVars == <<input_lines, lines_read, key_counter, total_records, analysis>>

processVars == <<running, started>>

workflowVars == <<args_job, step, job_pc, success, run_skewed_keys, files,
                  stage_stdout, job_sorted_lines, returncodes, events, exit_status,
                  processVars, stage_failed, job_results>>

aggregationVars == <<agg_input, agg_read, user_action_counts, agg_mapper_output,
                     agg_sorted_lines, agg_pos, agg_current_user, agg_output>>

trendingVars == <<trend_input, trend_mapper_output, trend_sorted_lines,
                  trend_combiner_output, trend_pos, content_data, error_count,
                  trend_output>>

cleansingVars == <<clean_input, clean_read, metrics, clean_output>>

unitVars == <<aggregationVars, trendingVars, cleansingVars>>

vars == <<pc, joinVars, detectorVars, workflowVars, unitVars>>

---------------------------------------------------------------------------
(* Characters and Python's string primitives *)

Ascii == [tab |-> 9, nl |-> 10, comma |-> 44, zero |-> 48, colon |-> 58,
          A |-> 65, P |-> 80, underscore |-> 95]

\* str.strip() with no argument strips these (the ASCII whitespace of Python 3)
Whitespace == {9, 10, 11, 12, 13, 28, 29, 30, 31, 32}

None == <<-1>>

RECURSIVE LStrip(_)
LStrip(s) ==
    IF s # <<>> /\ Head(s) \in Whitespace THEN LStrip(Tail(s)) ELSE s

RECURSIVE RStrip(_)
RStrip(s) ==
    IF s # <<>> /\ s[Len(s)] \in Whitespace
    THEN RStrip(SubSeq(s, 1, Len(s) - 1))
    ELSE s

\* s.strip()
Strip(s) == RStrip(LStrip(s))

\* s.find(c) + 1: the first position of character c in s, 0 when absent
RECURSIVE FindFrom(_, _, _)
FindFrom(s, c, i) ==
    IF i > Len(s) THEN 0
    ELSE IF s[i] = c THEN i
    ELSE FindFrom(s, c, i + 1)

Find(s, c) == FindFrom(s, c, 1)

\* s.split(c, 1)
SplitFirst(s, c) ==
    LET i == Find(s, c)
    IN  IF i = 0 THEN <<s>>
        ELSE <<SubSeq(s, 1, i - 1), SubSeq(s, i + 1, Len(s))>>

\* s.split(c)
RECURSIVE Split(_, _)
Split(s, c) ==
    LET i == Find(s, c)
    IN  IF i = 0 THEN <<s>>
        ELSE <<SubSeq(s, 1, i - 1)>> \o Split(SubSeq(s, i + 1, Len(s)), c)

\* str(i) for a natural number i
RECURSIVE Str(_)
Str(i) ==
    IF i < 10 THEN <<Ascii.zero + i>>
    ELSE Str(i \div 10) \o <<Ascii.zero + (i % 10)>>

\* a < b for two strings: comparison by code point, a proper prefix first
RECURSIVE StrLess(_, _)
StrLess(a, b) ==
    IF b = <<>> THEN FALSE
    ELSE IF a = <<>> THEN TRUE
    ELSE IF Head(a) # Head(b) THEN Head(a) < Head(b)
    ELSE StrLess(Tail(a), Tail(b))

RECURSIVE Insert(_, _)
Insert(x, s) ==
    IF s = <<>> THEN <<x>>
    ELSE IF StrLess(x, Head(s)) THEN <<x>> \o s
    ELSE <<Head(s)>> \o Insert(x, Tail(s))

\* sorted(lines)
RECURSIVE Sorted(_)
Sorted(lines) ==
    IF lines = <<>> THEN <<>>
    ELSE Insert(lines[Len(lines)], Sorted(SubSeq(lines, 1, Len(lines) - 1)))

\* the text a process writes when it prints each of lines
RECURSIVE PrintLines(_)
PrintLines(lines) ==
    IF lines = <<>> THEN <<>>
    ELSE Head(lines) \o <<Ascii.nl>> \o PrintLines(Tail(lines))

\* sep.join(lines) for the one-character separator sep
RECURSIVE Join(_, _)
Join(lines, sep) ==
    IF lines = <<>> THEN <<>>
    ELSE IF Len(lines) = 1 THEN Head(lines)
    ELSE Head(lines) \o <<sep>> \o Join(Tail(lines), sep)

\* the lines `for line in sys.stdin` yields for the text fed to the process
\* (each without its line terminator, which the stages strip)
StdinLines(text) ==
    LET parts == Split(text, Ascii.nl)
    IN  IF parts[Len(parts)] = <<>> THEN SubSeq(parts, 1, Len(parts) - 1)
        ELSE parts

Range(s) == {s[i] : i \in DOMAIN s}

---------------------------------------------------------------------------
(* The salters and the join mappers *)

\* SkewHandler.num_salts / ProfileSkewHandler's default num_salts
NumSalts == 10

\* SkewHandler._load_skewed_keys: set(s.split(',')) if s else set()
SkewHandler_load_skewed_keys(env) ==
    IF env = <<>> THEN {} ELSE Range(Split(env, Ascii.comma))

\* ProfileSkewHandler._load_skewed_keys: set(filter(None, s.split(',')))
ProfileSkewHandler_load_skewed_keys(env) ==
    {k \in Range(Split(env, Ascii.comma)) : k # <<>>}

\* [f"{user_id}_{i}" for i in range(num_salts)]
SaltedKeys(user_id, num_salts) ==
    [j \in 1..num_salts |-> user_id \o <<Ascii.underscore>> \o Str(j - 1)]

\* process_key that salts every key
SkewHandler_process_key_AlwaysSalts(user_id, skewed_keys, num_salts) ==
    SaltedKeys(user_id, num_salts)

\* SkewHandler.process_key
SkewHandler_process_key(user_id, skewed_keys, num_salts) ==
    IF user_id \in skewed_keys THEN SaltedKeys(user_id, num_salts)
    ELSE <<user_id>>

\* ProfileSkewHandler.process_key with range(num_salts - 1): the last salted
\* variant is missing on the profile side
ProfileSkewHandler_process_key_ShortRange(user_id, skewed_keys, num_salts) ==
    IF user_id \in skewed_keys THEN SaltedKeys(user_id, num_salts - 1)
    ELSE <<user_id>>

\* ProfileSkewHandler.process_key
ProfileSkewHandler_process_key(user_id, skewed_keys, num_salts) ==
    IF user_id \in skewed_keys THEN SaltedKeys(user_id, num_salts)
    ELSE <<user_id>>

\* ActivityMapper.prefix
ActivityPrefix == <<Ascii.A, Ascii.colon>>

\* ProfileMapper.PROFILE_PREFIX
PROFILE_PREFIX == <<Ascii.P, Ascii.colon>>

\* ActivityMapper.process_line: the records emitted for one input line
ActivityMapper_process_line(line, env, num_salts) ==
    LET fields == SplitFirst(Strip(line), Ascii.tab)
    IN  IF Len(fields) < 2 THEN <<>>       \* ValueError, caught: no record
        ELSE LET user_id == fields[1]
                 activity_data == fields[2]
                 keys == SkewHandler_process_key(
                             user_id, SkewHandler_load_skewed_keys(env), num_salts)
             IN  [j \in 1..Len(keys) |->
                     keys[j] \o <<Ascii.tab>> \o ActivityPrefix \o activity_data]

\* ProfileMapper.extract_user_id
extract_user_id(composite_field) ==
    Strip(Split(composite_field, Ascii.comma)[1])

\* ProfileMapper.process_line: the records emitted for one input line
ProfileMapper_process_line(line, env, num_salts) ==
    LET fields == SplitFirst(Strip(line), Ascii.tab)
    IN  IF fields = <<>> THEN <<>>         \* 'if not fields': split never returns []
        ELSE LET user_id == extract_user_id(fields[1])
                 profile_data == PROFILE_PREFIX \o Strip(line)
                 keys == ProfileSkewHandler_process_key(
                             user_id, ProfileSkewHandler_load_skewed_keys(env),
                             num_salts)
             IN  [j \in 1..Len(keys) |->
                     keys[j] \o <<Ascii.tab>> \o profile_data]

\* main() of join_activity_mapper: every record of every line, in input order
RECURSIVE ActivityMapper_main(_, _, _)
ActivityMapper_main(lines, env, num_salts) ==
    IF lines = <<>> THEN <<>>
    ELSE ActivityMapper_process_line(Head(lines), env, num_salts)
         \o ActivityMapper_main(Tail(lines), env, num_salts)

\* main() of join_profile_mapper
RECURSIVE ProfileMapper_main(_, _, _)
ProfileMapper_main(lines, env, num_salts) ==
    IF lines = <<>> THEN <<>>
    ELSE ProfileMapper_process_line(Head(lines), env, num_salts)
         \o ProfileMapper_main(Tail(lines), env, num_salts)

\* JoinJob.execute, 'Combine and sort':
\*   combined = activity_output.strip() + '\n' + profile_output.strip()
\*   sorted_lines = sorted(combined.split('\n'))
CombineAndSort(act_out, prof_out) ==
    Sorted(Split(Strip(act_out) \o <<Ascii.nl>> \o Strip(prof_out), Ascii.nl))

---------------------------------------------------------------------------
(* The join reducer *)

\* UserRecord.__init__
UserRecord == [profile_data |-> None, activity_data |-> None]

\* UserRecord.is_complete
is_complete(record) ==
    record.profile_data # None /\ record.activity_data # None

\* update that keeps the payload a slot already holds
update_FirstWriteWins(record, data_type, data) ==
    IF data_type = Ascii.P /\ record.profile_data = None
    THEN [record EXCEPT !.profile_data = data]
    ELSE IF data_type = Ascii.A /\ record.activity_data = None
    THEN [record EXCEPT !.activity_data = data]
    ELSE record

\* update whose activity branch builds the record anew
update_ActivityResets(record, data_type, data) ==
    IF data_type = Ascii.P THEN [record EXCEPT !.profile_data = data]
    ELSE IF data_type = Ascii.A
    THEN [profile_data |-> None, activity_data |-> data]
    ELSE record

\* UserRecord.update
update(record, data_type, data) ==
    IF data_type = Ascii.P THEN [record EXCEPT !.profile_data = data]
    ELSE IF data_type = Ascii.A THEN [record EXCEPT !.activity_data = data]
    ELSE record

\* UserRecord.get_joined_data
get_joined_data(record, user_id) ==
    user_id \o <<Ascii.tab>> \o record.profile_data
            \o <<Ascii.tab>> \o record.activity_data

\* JoinReducer.normalize_user_id: user_id.split('_')[0]
normalize_user_id(user_id) == Split(user_id, Ascii.underscore)[1]

\* parse_line without its check of the data tag format
ParseOk_NoTagCheck(line) ==
    LET parts == SplitFirst(Strip(line), Ascii.tab)
    IN  Len(parts) = 2 /\ Len(parts[2]) >= 1

\* JoinReducer.parse_line succeeds (raises no ValueError)
ParseOk(line) ==
    LET parts == SplitFirst(Strip(line), Ascii.tab)
    IN  /\ Len(parts) = 2
        /\ Len(parts[2]) >= 2
        /\ parts[2][2] = Ascii.colon

\* JoinReducer.parse_line, where it succeeds
parse_line(line) ==
    LET parts == SplitFirst(Strip(line), Ascii.tab)
    IN  [user_id   |-> parts[1],
         data_type |-> parts[2][1],
         data      |-> SubSeq(parts[2], 3, Len(parts[2]))]

\* JoinReducer._finalize_current_record; None and '' are falsy users
finalize_current_record(user, record) ==
    IF user # None /\ user # <<>> /\ record # <<>> /\ is_complete(record[1])
    THEN get_joined_data(record[1], user)
    ELSE None

\* JoinReducer.process_line from the state (user, record): the new state
\* and the returned value
process_line(user, record, line) ==
    IF ~ParseOk(line)
    THEN [current_user |-> user, current_record |-> record, output |-> None]
    ELSE LET p == parse_line(line)
             normalized_id == normalize_user_id(p.user_id)
             transition == normalized_id # user
             rec == IF transition THEN UserRecord ELSE record[1]
         IN  [current_user   |-> normalized_id,
              current_record |-> <<update(rec, p.data_type, p.data)>>,
              output         |-> IF transition
                                 THEN finalize_current_record(user, record)
                                 ELSE None]

\* main() of join_reducer: 'if result: print(result)'
Printed(result) ==
    IF result # None /\ result # <<>> THEN <<result>> ELSE <<>>

\* main() of join_reducer run to the end over lines, from the state
\* (user, record): the lines it prints
RECURSIVE JoinReducer_main(_, _, _)
JoinReducer_main(user, record, lines) ==
    IF lines = <<>> THEN Printed(finalize_current_record(user, record))
    ELSE LET r == process_line(user, record, Head(lines))
         IN  Printed(r.output)
             \o JoinReducer_main(r.current_user, r.current_record, Tail(lines))

\* JoinJob.execute as a function of its inputs: the reducer's output lines
JoinJob_output(act_lines, prof_lines, env, num_salts) ==
    JoinReducer_main(None, <<>>,
        StdinLines(Join(
            CombineAndSort(PrintLines(ActivityMapper_main(act_lines, env, num_salts)),
                           PrintLines(ProfileMapper_main(prof_lines, env, num_salts))),
            Ascii.nl)))

---------------------------------------------------------------------------
(* Bounds and inputs *)

\* longest activity or profile dataset, in lines
MaxLines == 2

\* longest stream fed to the reducer run on its own, in lines
MaxStream == 3

\* lines of the activity dataset: UserID<TAB>data, and a line without a tab
ActivityLines ==
    { <<97, 9, 120>>,                          \* 'a\tx'
      <<97, 48, 9, 121>>,                      \* 'a0\ty'
      <<97, 95, 49, 9, 122>>,                  \* 'a_1\tz'
      <<97>> }                                 \* 'a'

\* lines of the profile dataset: UserID,Name<TAB>data, and a blank line
ProfileLines ==
    { <<97, 44, 110, 9, 112>>,                 \* 'a,n\tp'
      <<97, 95, 49, 44, 110, 9, 113>>,         \* 'a_1,n\tq'
      <<>> }                                   \* ''

\* values of 'skewed.keys': unset or empty, one key, a key with '_' in a list
\* with a trailing comma
SkewedKeysEnvs ==
    { <<>>,                                    \* ''
      <<97>>,                                  \* 'a'
      <<97, 95, 49, 44>> }                     \* 'a_1,'

\* lines fed to the reducer run on its own
ReducerLines ==
    { <<97, 9, 65, 58, 120>>,                  \* 'a\tA:x'
      <<97, 9, 80, 58, 112>>,                  \* 'a\tP:p'
      <<97, 48, 9, 65, 58, 121>>,              \* 'a0\tA:y'
      <<97, 95, 49, 9, 80, 58, 113>>,          \* 'a_1\tP:q'
      <<97, 9, 65, 58>>,                       \* 'a\tA:'
      <<97, 9, 80, 58, 112, 9, 113>>,          \* 'a\tP:p\tq'
      <<97>>,                                  \* 'a'
      <<97, 9, 65, 120>>,                      \* 'a\tAx'
      <<95, 49, 9, 65, 58, 120>>,              \* '_1\tA:x'
      <<95, 49, 9, 80, 58, 112>>,              \* '_1\tP:p'
      <<97, 48, 9, 88, 58, 122>> }             \* 'a0\tX:z'

\* the sequences over S of length lo..hi
SeqsOf(S, lo, hi) == UNION {[1..n -> S] : n \in lo..hi}

---------------------------------------------------------------------------
(* The join job: JoinJob.execute with its three stage processes *)

\* the aggregation units are not running
AggregationIdle ==
    /\ agg_input = <<>>
    /\ agg_read = 0
    /\ user_action_counts = <<>>
    /\ agg_mapper_output = <<>>
    /\ agg_sorted_lines = <<>>
    /\ agg_pos = 0
    /\ agg_current_user = None
    /\ agg_output = <<>>

\* the trending units are not running
TrendingIdle ==
    /\ trend_input = <<>>
    /\ trend_mapper_output = <<>>
    /\ trend_sorted_lines = <<>>
    /\ trend_combiner_output = <<>>
    /\ trend_pos = 0
    /\ content_data = <<>>
    /\ error_count = 0
    /\ trend_output = <<>>

\* DataQualityCounters.__init__
NoMetrics ==
    [invalid_timestamp |-> 0, malformed_json |-> 0, missing_fields |-> 0,
     processing_errors |-> 0, total_processed |-> 0, total_discarded |-> 0]

\* the cleansing mapper is not running
CleansingIdle ==
    /\ clean_input = <<>>
    /\ clean_read = 0
    /\ metrics = NoMetrics
    /\ clean_output = <<>>

\* no single-input stage unit is running
UnitsIdle == AggregationIdle /\ TrendingIdle /\ CleansingIdle

\* WorkflowRunner is not running
WorkflowIdle ==
    /\ args_job = "none"
    /\ step = 0
    /\ job_pc = "none"
    /\ success = TRUE
    /\ run_skewed_keys = <<>>
    /\ files = <<>>
    /\ stage_stdout = <<>>
    /\ job_sorted_lines = <<>>
    /\ returncodes = <<>>
    /\ events = <<>>
    /\ exit_status = None
    /\ running = <<>>
    /\ started = <<>>
    /\ stage_failed = FALSE
    /\ job_results = <<>>

\* the skew detector is not running
DetectorIdle ==
    /\ input_lines = <<>>
    /\ lines_read = 0
    /\ key_counter = <<>>
    /\ total_records = 0
    /\ analysis = <<>>

Init ==
    /\ pc = "map_activity"
    /\ skewed_keys_env \in SkewedKeysEnvs
    /\ activity_input \in SeqsOf(ActivityLines, 1, MaxLines)
    /\ profile_input \in SeqsOf(ProfileLines, 1, MaxLines)
    /\ activity_output = <<>>
    /\ profile_output = <<>>
    /\ sorted_lines = <<>>
    /\ reducer_input = <<>>
    /\ pos = 0
    /\ current_user = None
    /\ current_record = <<>>
    /\ reducer_output = <<>>
    /\ DetectorIdle
    /\ WorkflowIdle
    /\ UnitsIdle

\* 'Mapping activity data...': the activity mapper run to completion
MapActivity ==
    /\ pc = "map_activity"
    /\ activity_output' =
           PrintLines(ActivityMapper_main(activity_input, skewed_keys_env, NumSalts))
    /\ pc' = "map_profile"
    /\ UNCHANGED <<skewed_keys_env, activity_input, profile_input, profile_output,
                   sorted_lines, reducer_input, pos, current_user, current_record,
                   reducer_output>>
    /\ UNCHANGED <<detectorVars, workflowVars, unitVars>>

\* 'Mapping profile data...': the profile mapper run to completion
MapProfile ==
    /\ pc = "map_profile"
    /\ profile_output' =
           PrintLines(ProfileMapper_main(profile_input, skewed_keys_env, NumSalts))
    /\ pc' = "sort"
    /\ UNCHANGED <<skewed_keys_env, activity_input, profile_input, activity_output,
                   sorted_lines, reducer_input, pos, current_user, current_record,
                   reducer_output>>
    /\ UNCHANGED <<detectorVars, workflowVars, unitVars>>

\* 'Sorting joined data...'
SortCombined ==
    /\ pc = "sort"
    /\ sorted_lines' = CombineAndSort(activity_output, profile_output)
    /\ pc' = "start_reduce"
    /\ UNCHANGED <<skewed_keys_env, activity_input, profile_input, activity_output,
                   profile_output, reducer_input, pos, current_user, current_record,
                   reducer_output>>
    /\ UNCHANGED <<detectorVars, workflowVars, unitVars>>

\* 'Reducing joined data...': the reducer is started on '\n'.join(sorted_lines)
StartReducer ==
    /\ pc = "start_reduce"
    /\ reducer_input' = StdinLines(Join(sorted_lines, Ascii.nl))
    /\ pos' = 0
    /\ current_user' = None
    /\ current_record' = <<>>
    /\ reducer_output' = <<>>
    /\ pc' = "reduce"
    /\ UNCHANGED <<skewed_keys_env, activity_input, profile_input, activity_output,
                   profile_output, sorted_lines>>
    /\ UNCHANGED <<detectorVars, workflowVars, unitVars>>

\* one turn of 'for line in sys.stdin' in main() of join_reducer
ReduceLine ==
    /\ pc = "reduce"
    /\ pos < Len(reducer_input)
    /\ LET r == process_line(current_user, current_record, reducer_input[pos + 1])
       IN  /\ current_user' = r.current_user
           /\ current_record' = r.current_record
           /\ reducer_output' = reducer_output \o Printed(r.output)
    /\ pos' = pos + 1
    /\ UNCHANGED <<pc, skewed_keys_env, activity_input, profile_input,
                   activity_output, profile_output, sorted_lines, reducer_input>>
    /\ UNCHANGED <<detectorVars, workflowVars, unitVars>>

\* end of input: 'final_result = reducer.finalize()' and the process exits
ReduceFinalize ==
    /\ pc = "reduce"
    /\ pos = Len(reducer_input)
    /\ reducer_output' =
           reducer_output \o Printed(finalize_current_record(current_user, current_record))
    /\ pc' = "done"
    /\ UNCHANGED <<skewed_keys_env, activity_input, profile_input, activity_output,
                   profile_output, sorted_lines, reducer_input, pos, current_user,
                   current_record>>
    /\ UNCHANGED <<detectorVars, workflowVars, unitVars>>

Next ==
    \/ MapActivity
    \/ MapProfile
    \/ SortCombined
    \/ StartReducer
    \/ ReduceLine
    \/ ReduceFinalize

Spec == Init /\ [][Next]_vars

---------------------------------------------------------------------------
(* The join reducer run on its own over an arbitrary input stream *)

InitReducer ==
    /\ pc = "reduce"
    /\ skewed_keys_env = <<>>
    /\ activity_input = <<>>
    /\ profile_input = <<>>
    /\ activity_output = <<>>
    /\ profile_output = <<>>
    /\ sorted_lines = <<>>
    /\ reducer_input \in SeqsOf(ReducerLines, 1, MaxStream)
    /\ pos = 0
    /\ current_user = None
    /\ current_record = <<>>
    /\ reducer_output = <<>>
    /\ DetectorIdle
    /\ WorkflowIdle
    /\ UnitsIdle

NextReducer ==
    \/ ReduceLine
    \/ ReduceFinalize

SpecReducer == InitReducer /\ [][NextReducer]_vars

\* longest sorted stream fed to the reducer, in lines
MaxSortedStream == 5

\* records of the users a, a0 and a_1, one of each tag: 'a\tA:x', 'a\tP:p',
\* 'a0\tA:y', 'a0\tP:r', 'a_1\tA:w', 'a_1\tP:q'
SortedReducerLines ==
    { <<97, 9, 65, 58, 120>>,
      <<97, 9, 80, 58, 112>>,
      <<97, 48, 9, 65, 58, 121>>,
      <<97, 48, 9, 80, 58, 114>>,
      <<97, 95, 49, 9, 65, 58, 119>>,
      <<97, 95, 49, 9, 80, 58, 113>> }

\* the reducer as JoinJob.execute runs it: over a stream that sorted() has
\* put in order
InitSortedReducer ==
    /\ pc = "reduce"
    /\ skewed_keys_env = <<>>
    /\ activity_input = <<>>
    /\ profile_input = <<>>
    /\ activity_output = <<>>
    /\ profile_output = <<>>
    /\ sorted_lines = <<>>
    /\ reducer_input \in {s \in SeqsOf(SortedReducerLines, 1, MaxSortedStream) :
                            \A i \in 1..(Len(s) - 1) : ~StrLess(s[i + 1], s[i])}
    /\ pos = 0
    /\ current_user = None
    /\ current_record = <<>>
    /\ reducer_output = <<>>
    /\ DetectorIdle
    /\ WorkflowIdle
    /\ UnitsIdle

SpecSortedReducer == InitSortedReducer /\ [][NextReducer]_vars

---------------------------------------------------------------------------
(* The skew detector: skew_detection.py over the lines of its standard input *)

\* skew_threshold_factor = 0.01, as a fraction
skew_threshold_factor == [num |-> 1, den |-> 100]

\* the multiplier of the average records per key in the threshold
AverageMultiplier == 5

\* the key of a line: line.strip().split('\t')[0], cut at its first ','
DetectorKey(line) ==
    LET key == Split(Strip(line), Ascii.tab)[1]
    IN  IF Find(key, Ascii.comma) # 0 THEN Split(key, Ascii.comma)[1] ELSE key

\* key_counter[key] += 1
Increment(counter, key) ==
    IF \E i \in DOMAIN counter : counter[i].key = key
    THEN [i \in DOMAIN counter |->
             IF counter[i].key = key
             THEN [key |-> key, count |-> counter[i].count + 1]
             ELSE counter[i]]
    ELSE Append(counter, [key |-> key, count |-> 1])

\* the threshold without the multiple of the average:
\* skew_threshold_factor * total_records alone
SkewThreshold_OfTotalOnly(total, unique, factor, multiplier) ==
    [num |-> factor.num * total * unique, den |-> factor.den * unique]

\* max(skew_threshold_factor * total_records, avg_records_per_key * multiplier)
\* with avg_records_per_key = total_records / unique_keys, as the fraction
\* num / den over the common denominator
SkewThreshold(total, unique, factor, multiplier) ==
    LET of_total   == factor.num * total * unique
        of_average == multiplier * total * factor.den
    IN  [num |-> IF of_total > of_average THEN of_total ELSE of_average,
         den |-> factor.den * unique]

\* count >= skew_threshold
Exceeds_OrEqual(count, threshold) == count * threshold.den >= threshold.num

\* count < skew_threshold
Exceeds_Inverted(count, threshold) == count * threshold.den < threshold.num

\* count > skew_threshold
Exceeds(count, threshold) == count * threshold.den > threshold.num

\* [key for key, count in key_counter.items() if count > skew_threshold]
SkewedKeys(counter, threshold) ==
    LET skewed == SelectSeq(counter, LAMBDA e : Exceeds(e.count, threshold))
    IN  [i \in DOMAIN skewed |-> skewed[i].key]

\* the report without the empty profile: the division by unique_keys = 0
\* raises, and main prints its error report
Report_NoEmptyProfile(counter, total, factor, multiplier) ==
    IF counter = <<>>
    THEN [error |-> TRUE, total_records |-> None, unique_keys |-> None,
          skew_threshold |-> None, skewed_keys |-> <<>>]
    ELSE [error          |-> FALSE,
          total_records  |-> total,
          unique_keys    |-> Len(counter),
          skew_threshold |-> SkewThreshold(total, Len(counter), factor, multiplier),
          skewed_keys    |->
              SkewedKeys(counter,
                         SkewThreshold(total, Len(counter), factor, multiplier))]

\* what analyze_key_distribution returns once the lines are counted, as main
\* reports it: error is TRUE for main's error report, which nothing raises
Report(counter, total, factor, multiplier) ==
    IF counter = <<>>
    THEN [error |-> FALSE, total_records |-> 0, unique_keys |-> 0,
          skew_threshold |-> [num |-> 0, den |-> 1], skewed_keys |-> <<>>]
    ELSE [error          |-> FALSE,
          total_records  |-> total,
          unique_keys    |-> Len(counter),
          skew_threshold |-> SkewThreshold(total, Len(counter), factor, multiplier),
          skewed_keys    |->
              SkewedKeys(counter,
                         SkewThreshold(total, Len(counter), factor, multiplier))]

\* the loop of analyze_key_distribution run to the end over lns from the
\* counter and total given: the final counter and total
RECURSIVE CountKeys(_, _, _)
CountKeys(lns, counter, total) ==
    IF lns = <<>> THEN [key_counter |-> counter, total_records |-> total]
    ELSE CountKeys(Tail(lns), Increment(counter, DetectorKey(Head(lns))), total + 1)

\* analyze_key_distribution(lines) as a function of its input
analyze_key_distribution(lns, factor, multiplier) ==
    LET c == CountKeys(lns, <<>>, 0)
    IN  Report(c.key_counter, c.total_records, factor, multiplier)

\* most records of the hot key, and most other keys, in an input
MaxHot == 26

MaxFillers == 5

\* largest multiplier of the average the threshold is computed with
MaxMultiplier == 6

\* n copies of the line
Repeat(line, n) == [i \in 1..n |-> line]

\* 'a\tv\n', 'a,s\tv\n', and a line without a tab
HotLine == <<97, 9, 118, 10>>

CompositeLine == <<97, 44, 115, 9, 118, 10>>

TablessLine == <<122, 10>>

\* the i-th other key's line: 'b\tv\n', 'c\tv\n', ...
FillerLine(i) == <<97 + i, 9, 118, 10>>

\* an input of hot records of key a (the first with a composite key field if
\* composite), one record of each of fillers other keys, and a line without a
\* tab if tabless
DetectorInput(hot, fillers, composite, tabless) ==
    (IF composite /\ hot >= 1
     THEN <<CompositeLine>> \o Repeat(HotLine, hot - 1)
     ELSE Repeat(HotLine, hot))
    \o [i \in 1..fillers |-> FillerLine(i)]
    \o (IF tabless THEN <<TablessLine>> ELSE <<>>)

DetectorInputs ==
    {DetectorInput(hot, fillers, composite, tabless) :
        hot \in 0..MaxHot, fillers \in 0..MaxFillers,
        composite \in BOOLEAN, tabless \in BOOLEAN}

\* the join job is not running
JoinIdle ==
    /\ skewed_keys_env = <<>>
    /\ activity_input = <<>>
    /\ profile_input = <<>>
    /\ activity_output = <<>>
    /\ profile_output = <<>>
    /\ sorted_lines = <<>>
    /\ reducer_input = <<>>
    /\ pos = 0
    /\ current_user = None
    /\ current_record = <<>>
    /\ reducer_output = <<>>

\* main() of skew_detection has read its standard input
InitDetector ==
    /\ pc = "count_keys"
    /\ input_lines \in DetectorInputs
    /\ lines_read = 0
    /\ key_counter = <<>>
    /\ total_records = 0
    /\ analysis = <<>>
    /\ JoinIdle
    /\ WorkflowIdle
    /\ UnitsIdle

\* one turn of 'for line in lines' in analyze_key_distribution
CountLine ==
    /\ pc = "count_keys"
    /\ lines_read < Len(input_lines)
    /\ total_records' = total_records + 1
    /\ key_counter' = Increment(key_counter, DetectorKey(input_lines[lines_read + 1]))
    /\ lines_read' = lines_read + 1
    /\ UNCHANGED <<pc, input_lines, analysis, joinVars,
                   workflowVars, unitVars>>

\* the rest of analyze_key_distribution, and main prints the report
Analyze ==
    /\ pc = "count_keys"
    /\ lines_read = Len(input_lines)
    /\ analysis' = <<Report(key_counter, total_records, skew_threshold_factor,
                            AverageMultiplier)>>
    /\ pc' = "reported"
    /\ UNCHANGED <<input_lines, lines_read, key_counter, total_records, joinVars,
                   workflowVars, unitVars>>

NextDetector ==
    \/ CountLine
    \/ Analyze

SpecDetector == InitDetector /\ [][NextDetector]_vars

---------------------------------------------------------------------------
(* The workflow: WorkflowRunner.run over its jobs, each stage an external   *)
(* process whose standard output and return code the run does not choose    *)

\* the values of --job
Jobs == {"cleansing", "aggregation", "trending", "join", "all"}

\* run() with the skew analysis ahead of the trending job
StepsOf_SkewBeforeTrending(job) ==
    IF job = "all"
    THEN <<"cleansing", "aggregation", "skew_analysis", "trending", "join">>
    ELSE <<job>>

\* the steps run() takes for --job, in the order of its if-blocks; the skew
\* analysis is the first statement of the join block, in 'all' mode only
StepsOf(job) ==
    IF job = "all"
    THEN <<"cleansing", "aggregation", "trending", "skew_analysis", "join">>
    ELSE <<job>>

\* the input files of run(), and data/user_activity.txt, the activity input
\* of the join outside 'all' mode
DataFiles ==
    {"data/social_media_logs.txt", "data/user_profiles.txt", "data/user_activity.txt"}

\* outputs[...] of run(), and the file _prepare_input merges a directory to
OutputFiles ==
    {"output/cleansed_data.txt", "output/user_activity.txt",
     "output/trending_content.txt", "output/joined_data.txt",
     "output/merged_input.tmp"}

\* outputs[step]
OutputOf(s) ==
    CASE s = "cleansing"   -> "output/cleansed_data.txt"
      [] s = "aggregation" -> "output/user_activity.txt"
      [] s = "trending"    -> "output/trending_content.txt"
      [] s = "join"        -> "output/joined_data.txt"

\* run() with every job of 'all' reading the output of the job before it
InputOf_Chained(s, job) ==
    CASE s = "cleansing" -> "data/social_media_logs.txt"
      [] s = "aggregation" ->
             IF job = "all" THEN "output/cleansed_data.txt" ELSE "data"
      [] s = "trending" ->
             IF job = "all" THEN "output/user_activity.txt" ELSE "data"
      [] s = "join" ->
             IF job = "all" THEN "output/user_activity.txt"
             ELSE "data/user_activity.txt"

\* the input path execute() is called with: "data" is the directory input_dir
InputOf(s, job) ==
    CASE s = "cleansing" -> "data/social_media_logs.txt"
      [] s \in {"aggregation", "trending"} ->
             IF job = "all" THEN "output/cleansed_data.txt" ELSE "data"
      [] s = "join" ->
             IF job = "all" THEN "output/user_activity.txt"
             ELSE "data/user_activity.txt"

\* the stage execute() runs first
FirstStage(s) ==
    CASE s = "skew_analysis" -> "analysis"
      [] s = "join"          -> "activity_mapper"
      [] OTHER               -> "mapper"

\* a text of two records, not in sorted order: 'b\t1\na\t2\n'
DataText == <<98, 9, 49, 10, 97, 9, 50, 10>>

\* what a stage process can print, and the return codes it can exit with
StageStdouts == {<<>>, DataText}

ReturnCodes == {0, 1}

\* the ways a stage process that was started can go: it prints stdout and
\* exits with returncode
StageOutcomes == [stdout : StageStdouts, returncode : ReturnCodes]

\* the files before the run: any of the data files, and either no output
\* file or the output files of an earlier run
InitialFiles ==
    {[f \in DataFiles \cup OutputFiles |->
         IF f \in DataFiles THEN (IF f \in present THEN DataText ELSE None)
         ELSE IF f = "output/merged_input.tmp" THEN None
         ELSE stale] :
        present \in SUBSET DataFiles, stale \in {None, DataText}}

\* the orders os.listdir can give the files present in data/
ListDirs(fs) ==
    LET present == {f \in DataFiles : fs[f] # None}
    IN  {o \in [1..Cardinality(present) -> present] :
            \A i, j \in DOMAIN o : o[i] = o[j] => i = j}

\* _prepare_input: a directory is merged into output/merged_input.tmp, each
\* file followed by '\n', in the order listed; a file path is left alone
prepare_input(fs, input_path, listed) ==
    IF input_path = "data"
    THEN [fs EXCEPT !["output/merged_input.tmp"] =
                        PrintLines([i \in DOMAIN listed |-> fs[listed[i]]])]
    ELSE fs

\* what analyze() returns when the detector has run over the text and its
\* report parses: ','.join(skew_data.get('skewed_keys', []))
DetectorOutput(text) ==
    Join(analyze_key_distribution(StdinLines(text), skew_threshold_factor,
                                  AverageMultiplier).skewed_keys,
         Ascii.comma)

InitWorkflow ==
    /\ pc = "workflow"
    /\ args_job \in Jobs
    /\ step = 0
    /\ job_pc = "none"
    /\ success = TRUE
    /\ run_skewed_keys = <<>>
    /\ files \in InitialFiles
    /\ stage_stdout = <<>>
    /\ job_sorted_lines = <<>>
    /\ returncodes = <<>>
    /\ events = <<>>
    /\ exit_status = None
    /\ running = <<>>
    /\ started = <<>>
    /\ stage_failed = FALSE
    /\ job_results = <<>>
    /\ JoinIdle
    /\ DetectorIdle
    /\ UnitsIdle

\* the step run() is in
CurrentStep == StepsOf(args_job)[step]

\* execute() (or analyze()) returns ok to run()
Returns(ok) ==
    /\ success' = ok
    /\ job_pc' = "none"
    /\ events' = Append(events, <<"return", CurrentStep>>)
    /\ job_results' = IF CurrentStep = "skew_analysis" THEN job_results
                      ELSE Append(job_results, ok)

\* an exception inside execute(): 'except Exception' returns False
JobFails ==
    /\ Returns(FALSE)
    /\ UNCHANGED <<stage_stdout, job_sorted_lines, returncodes>>

\* a run() whose if-blocks do not test success
Proceeds_Always(ok) == TRUE

\* the '... and success' of every if-block of run() after the first (success
\* is True at the first)
Proceeds(ok) == ok

\* run() reaches the next of its if-blocks with success still True and calls
\* the step
StartStep ==
    /\ exit_status = None
    /\ job_pc = "none"
    /\ Proceeds(success)
    /\ step < Len(StepsOf(args_job))
    /\ step' = step + 1
    /\ events' = Append(events, <<"call", StepsOf(args_job)[step + 1]>>)
    /\ job_pc' = FirstStage(StepsOf(args_job)[step + 1])
    /\ stage_stdout' = <<>>
    /\ job_sorted_lines' = <<>>
    /\ returncodes' = <<>>
    /\ started' = <<>>
    /\ UNCHANGED <<pc, args_job, success, run_skewed_keys, files, exit_status,
                   running, stage_failed, job_results, joinVars, detectorVars, unitVars>>

\* the stages that are processes
Stages ==
    {"mapper", "combiner", "reducer", "activity_mapper", "profile_mapper",
     "join_reducer"}

\* the path execute() reads the input_data of the stage from: "data" is the
\* directory input_dir, "" the sorted lines held in memory
InputPath(stage) ==
    CASE stage = "mapper"          -> InputOf(CurrentStep, args_job)
      [] stage = "activity_mapper" -> InputOf("join", args_job)
      [] stage = "profile_mapper"  -> "data/user_profiles.txt"
      [] OTHER                     -> ""

\* the input execute() has prepared for the stage: the text of the input
\* file, of the merged file _prepare_input wrote for a directory, or of the
\* sorted lines
Prepared(stage, fs, sorted) ==
    IF InputPath(stage) = "" THEN Join(sorted, Ascii.nl)
    ELSE IF InputPath(stage) = "data" THEN fs["output/merged_input.tmp"]
    ELSE fs[InputPath(stage)]

\* the input_data argument of _run_process: None for a directory, the text
\* of the input file, or '\n'.join(sorted_lines)
InputData(stage, fs, sorted) ==
    IF InputPath(stage) = "" THEN Join(sorted, Ascii.nl)
    ELSE IF InputPath(stage) = "data" THEN None
    ELSE fs[InputPath(stage)]

\* Popen(stdin=subprocess.PIPE if input_data else None) and
\* communicate(input=input_data): the process reads input_data from a pipe,
\* or, for None and '', inherits the standard input of the orchestrator
Stdin(input_data) ==
    IF input_data = None \/ input_data = <<>>
    THEN [piped |-> FALSE, data |-> <<>>]
    ELSE [piped |-> TRUE, data |-> input_data]

\* 'skewed.keys' in the env argument of the stage: the join passes
\* {'skewed.keys': skewed_keys}; the other jobs pass none, or a dict without it
EnvOf(stage, keys) ==
    IF stage \in {"activity_mapper", "profile_mapper", "join_reducer"}
    THEN keys ELSE None

\* _run_process never waits
Blocked_Never(procs) == FALSE

\* _run_process is inside process.communicate(): it returns when the process
\* has exited and its output is read
Blocked(procs) == procs # <<>>

\* execute() up to and including Popen in _run_process for the stage at
\* hand: the input is prepared and read (open() raises for a missing file),
\* and the process is started (or Popen raises)
LaunchStage ==
    /\ job_pc \in Stages
    /\ ~Blocked(running)
    /\ LET path == InputPath(job_pc)
       IN  \/ /\ IF path \in {"", "data"} THEN FALSE ELSE files[path] = None
              /\ JobFails
              /\ UNCHANGED <<files, processVars>>
           \/ /\ IF path \in {"", "data"} THEN TRUE ELSE files[path] # None
              /\ \E listed \in (IF path = "data" THEN ListDirs(files) ELSE {<<>>}),
                    raised \in BOOLEAN :
                    /\ files' = prepare_input(files, path, listed)
                    /\ IF raised
                       THEN /\ JobFails
                            /\ UNCHANGED processVars
                       ELSE /\ running' = Append(running, job_pc)
                            /\ started' = Append(started,
                                   [step  |-> CurrentStep,
                                    stage |-> job_pc,
                                    path  |-> path,
                                    prepared |-> Prepared(job_pc, files',
                                                          job_sorted_lines),
                                    stdin |-> Stdin(InputData(job_pc, files,
                                                              job_sorted_lines)),
                                    env   |-> EnvOf(job_pc, run_skewed_keys),
                                    stdout     |-> None,
                                    returncode |-> None])
                            /\ UNCHANGED <<job_pc, success, events, job_results,
                                           stage_stdout, job_sorted_lines,
                                           returncodes>>
    /\ UNCHANGED <<pc, args_job, step, run_skewed_keys, exit_status, stage_failed,
                   joinVars, detectorVars, unitVars>>

\* what the stage prints when it runs to its end over the text on its
\* standard input: the join stages by their code
StageOutput(stage, text, env) ==
    CASE stage = "activity_mapper" ->
             PrintLines(ActivityMapper_main(StdinLines(text), env, NumSalts))
      [] stage = "profile_mapper" ->
             PrintLines(ProfileMapper_main(StdinLines(text), env, NumSalts))
      [] stage = "join_reducer" ->
             PrintLines(JoinReducer_main(None, <<>>, StdinLines(text)))

\* the ways the process p can go. A join stage fed through a pipe prints
\* what its code prints for its input and exits with 0 or 1, or dies before
\* it prints; a process that inherited the standard input of the orchestrator
\* reads whatever is there, and the stages of the other jobs are taken as
\* given: any text, any return code
OutcomesOf(p) ==
    IF p.stage \in {"activity_mapper", "profile_mapper", "join_reducer"}
       /\ p.stdin.piped
    THEN [stdout : {StageOutput(p.stage, p.stdin.data, p.env)},
          returncode : ReturnCodes]
         \cup {[stdout |-> <<>>, returncode |-> 1]}
    ELSE StageOutcomes

\* communicate() returns for the running stage: the process has printed
\* o.stdout and exited with o.returncode, which _run_process does not read
Exits(stage, o) ==
    /\ running = <<stage>>
    /\ running' = <<>>
    /\ returncodes' = Append(returncodes, o.returncode)
    /\ stage_failed' = (stage_failed \/ o.returncode # 0)
    /\ started' = [started EXCEPT ![Len(started)] =
                       [@ EXCEPT !.stdout = o.stdout,
                                 !.returncode = <<o.returncode>>]]

\* the sort phase without the sort
SortLines_Unsorted(text) == Split(Strip(text), Ascii.nl)

\* sorted(mapper_output.strip().split('\n')), and the same of combiner_output
SortLines(text) == Sorted(Split(Strip(text), Ascii.nl))

\* the map phase that opens the output file for writing before the sort
RunMapper_OpensOutput ==
    /\ job_pc = "mapper"
    /\ running # <<>>
    /\ \E o \in OutcomesOf(started[Len(started)]) :
          /\ Exits("mapper", o)
          /\ files' = [files EXCEPT ![OutputOf(CurrentStep)] = <<>>]
          /\ IF Strip(o.stdout) = <<>>
             THEN /\ Returns(TRUE)
                  /\ UNCHANGED job_sorted_lines
             ELSE /\ job_sorted_lines' = SortLines(o.stdout)
                  /\ job_pc' = IF CurrentStep = "trending"
                               THEN "combiner" ELSE "reducer"
                  /\ UNCHANGED <<success, events, job_results>>
    /\ UNCHANGED <<pc, args_job, step, run_skewed_keys, exit_status, stage_stdout,
                   joinVars, detectorVars, unitVars>>

\* SingleInputJob.execute from the mapper's exit up to its combiner or
\* reducer: the empty-output return, the sort
RunMapper ==
    /\ job_pc = "mapper"
    /\ running # <<>>
    /\ \E o \in OutcomesOf(started[Len(started)]) :
          /\ Exits("mapper", o)
          /\ IF Strip(o.stdout) = <<>>
             THEN /\ files' = [files EXCEPT ![OutputOf(CurrentStep)] = <<>>]
                  /\ Returns(TRUE)
                  /\ UNCHANGED job_sorted_lines
             ELSE /\ job_sorted_lines' = SortLines(o.stdout)
                  /\ job_pc' = IF CurrentStep = "trending"
                               THEN "combiner" ELSE "reducer"
                  /\ UNCHANGED <<success, events, job_results, files>>
    /\ UNCHANGED <<pc, args_job, step, run_skewed_keys, exit_status, stage_stdout,
                   joinVars, detectorVars, unitVars>>

\* the combine phase of SingleInputJob.execute from the combiner's exit, and
\* the second sort
RunCombiner ==
    /\ job_pc = "combiner"
    /\ running # <<>>
    /\ \E o \in OutcomesOf(started[Len(started)]) :
          /\ Exits("combiner", o)
          /\ job_sorted_lines' = SortLines(o.stdout)
          /\ job_pc' = "reducer"
    /\ UNCHANGED <<pc, args_job, step, run_skewed_keys, files, exit_status,
                   success, events, job_results, stage_stdout, joinVars,
                   detectorVars, unitVars>>

\* the reduce phase of SingleInputJob.execute from the reducer's exit, and
\* the output file written
RunReducer ==
    /\ job_pc = "reducer"
    /\ running # <<>>
    /\ \E o \in OutcomesOf(started[Len(started)]) :
          /\ Exits("reducer", o)
          /\ files' = [files EXCEPT ![OutputOf(CurrentStep)] = o.stdout]
          /\ Returns(TRUE)
    /\ UNCHANGED <<pc, args_job, step, run_skewed_keys, exit_status, stage_stdout,
                   job_sorted_lines, joinVars, detectorVars, unitVars>>

\* analyze() that fails the run when the analysis fails
SkewAnalysis_FailsRun ==
    /\ job_pc = "analysis"
    /\ run_skewed_keys' = <<>>
    /\ Returns(FALSE)
    /\ UNCHANGED <<pc, args_job, step, files, stage_stdout, job_sorted_lines,
                   returncodes, exit_status, processVars, stage_failed, joinVars,
                   detectorVars, unitVars>>

\* analyze() that reports the key 'a' as skewed
SkewAnalysis_ReportsKey ==
    /\ job_pc = "analysis"
    /\ run_skewed_keys' = <<97>>
    /\ Returns(success)
    /\ UNCHANGED <<pc, args_job, step, files, stage_stdout, job_sorted_lines,
                   returncodes, exit_status, processVars, stage_failed, joinVars,
                   detectorVars, unitVars>>

\* SkewAnalyzer.analyze: the Popen call names the undefined 'infil', so the
\* NameError (or the error of opening the input) is caught, no process runs,
\* skew_analysis.json is not written and analyze returns ""
SkewAnalysis ==
    /\ job_pc = "analysis"
    /\ run_skewed_keys' = <<>>
    /\ Returns(success)
    /\ UNCHANGED <<pc, args_job, step, files, stage_stdout, job_sorted_lines,
                   returncodes, exit_status, processVars, stage_failed, joinVars,
                   detectorVars, unitVars>>

\* JoinJob.execute from the activity mapper's exit
RunActivityMapper ==
    /\ job_pc = "activity_mapper"
    /\ running # <<>>
    /\ \E o \in OutcomesOf(started[Len(started)]) :
          /\ Exits("activity_mapper", o)
          /\ stage_stdout' = o.stdout
          /\ job_pc' = "profile_mapper"
    /\ UNCHANGED <<pc, args_job, step, run_skewed_keys, files, exit_status,
                   success, events, job_results, job_sorted_lines, joinVars,
                   detectorVars, unitVars>>

\* JoinJob.execute from the profile mapper's exit: the two outputs combined
\* and sorted
RunProfileMapper ==
    /\ job_pc = "profile_mapper"
    /\ running # <<>>
    /\ \E o \in OutcomesOf(started[Len(started)]) :
          /\ Exits("profile_mapper", o)
          /\ job_sorted_lines' = CombineAndSort(stage_stdout, o.stdout)
          /\ job_pc' = "join_reducer"
    /\ UNCHANGED <<pc, args_job, step, run_skewed_keys, files, exit_status,
                   success, events, job_results, stage_stdout, joinVars,
                   detectorVars, unitVars>>

\* JoinJob.execute from the reducer's exit, and the output file written
RunJoinReducer ==
    /\ job_pc = "join_reducer"
    /\ running # <<>>
    /\ \E o \in OutcomesOf(started[Len(started)]) :
          /\ Exits("join_reducer", o)
          /\ files' = [files EXCEPT ![OutputOf("join")] = o.stdout]
          /\ Returns(TRUE)
    /\ UNCHANGED <<pc, args_job, step, run_skewed_keys, exit_status, stage_stdout,
                   job_sorted_lines, joinVars, detectorVars, unitVars>>

\* 'Report results': run() returns 0 if success else 1
ReturnFromRun ==
    /\ exit_status = None
    /\ job_pc = "none"
    /\ ~success \/ step = Len(StepsOf(args_job))
    /\ exit_status' = IF success THEN <<0>> ELSE <<1>>
    /\ UNCHANGED <<pc, args_job, step, job_pc, success, run_skewed_keys, files,
                   stage_stdout, job_sorted_lines, returncodes, events,
                   processVars, stage_failed, job_results, joinVars, detectorVars, unitVars>>

NextWorkflow ==
    \/ StartStep
    \/ LaunchStage
    \/ RunMapper
    \/ RunCombiner
    \/ RunReducer
    \/ SkewAnalysis
    \/ RunActivityMapper
    \/ RunProfileMapper
    \/ RunJoinReducer
    \/ ReturnFromRun

SpecWorkflow == InitWorkflow /\ [][NextWorkflow]_vars

---------------------------------------------------------------------------
(* The aggregation job: action_aggregation_mapper.py, the sort of          *)
(* SingleInputJob.execute, and action_aggregation_reducer.py               *)

\* s.lower(), for ASCII
Lower(s) == [i \in DOMAIN s |-> IF s[i] \in 65..90 THEN s[i] + 32 ELSE s[i]]

\* the action types counted: 'post', 'like', 'comment', 'share'
ActionTypes ==
    [post    |-> <<112, 111, 115, 116>>,
     like    |-> <<108, 105, 107, 101>>,
     comment |-> <<99, 111, 109, 109, 101, 110, 116>>,
     share   |-> <<115, 104, 97, 114, 101>>]

\* f"{n:05d}" for a natural number n
Pad5(n) ==
    LET digits == Str(n)
    IN  IF Len(digits) >= 5 THEN digits
        ELSE [i \in 1..(5 - Len(digits)) |-> Ascii.zero] \o digits

\* the string is one int() accepts: decimal digits
IsInt(s) == s # <<>> /\ \A i \in DOMAIN s : s[i] \in 48..57

\* int(s) for a string of decimal digits
RECURSIVE ParseInt(_)
ParseInt(s) ==
    IF s = <<>> THEN 0
    ELSE 10 * ParseInt(SubSeq(s, 1, Len(s) - 1)) + (s[Len(s)] - Ascii.zero)

\* user_action_counts[user_id]: the defaultdict creates the entry when the
\* key is looked up
Lookup(counts, user_id) ==
    IF \E i \in DOMAIN counts : counts[i].user_id = user_id THEN counts
    ELSE Append(counts, [user_id |-> user_id, post |-> 0, like |-> 0,
                         comment |-> 0, share |-> 0])

\* one turn of the mapper's 'for line in sys.stdin': the counts after the line
AggregationMapper_process_line(counts, line) ==
    LET fields == Split(Strip(line), Ascii.tab)
    IN  IF Len(fields) < 3 THEN counts
        ELSE LET looked == Lookup(counts, fields[1])
                 action == Lower(fields[3])
             IN  [i \in DOMAIN looked |->
                     IF looked[i].user_id # fields[1] THEN looked[i]
                     ELSE [looked[i] EXCEPT
                             !.post    = @ + (IF action = ActionTypes.post THEN 1 ELSE 0),
                             !.like    = @ + (IF action = ActionTypes.like THEN 1 ELSE 0),
                             !.comment = @ + (IF action = ActionTypes.comment THEN 1 ELSE 0),
                             !.share   = @ + (IF action = ActionTypes.share THEN 1 ELSE 0)]]

\* 'Emit aggregated results': the line printed for one user,
\* f"{user_id},{10000 - post:05d}\t{post},{like},{comment},{share}"
AggregationMapper_record(c) ==
    c.user_id \o <<Ascii.comma>> \o Pad5(10000 - c.post) \o <<Ascii.tab>>
        \o Str(c.post) \o <<Ascii.comma>> \o Str(c.like) \o <<Ascii.comma>>
        \o Str(c.comment) \o <<Ascii.comma>> \o Str(c.share)

\* 'posts:', ',likes:', ',comments:', ',shares:'
Labels ==
    [posts    |-> <<112, 111, 115, 116, 115, 58>>,
     likes    |-> <<44, 108, 105, 107, 101, 115, 58>>,
     comments |-> <<44, 99, 111, 109, 109, 101, 110, 116, 115, 58>>,
     shares   |-> <<44, 115, 104, 97, 114, 101, 115, 58>>]

\* formatted_output of the reducer
FormattedOutput(user_id, post, like, comment, share) ==
    user_id \o <<Ascii.tab>> \o Labels.posts \o Str(post) \o Labels.likes
        \o Str(like) \o Labels.comments \o Str(comment) \o Labels.shares
        \o Str(share)

\* one turn of the reducer's 'for line in sys.stdin' from current_user: the
\* new current_user and the lines printed. An exception (a line that does not
\* split in two at the tabs, a value that is not four integers) is logged and
\* the loop goes on; current_user is set before the value is parsed
AggregationReducer_process_line(user, line) ==
    LET parts == Split(Strip(line), Ascii.tab)
    IN  IF Len(parts) # 2 THEN [current_user |-> user, printed |-> <<>>]
        ELSE LET user_id == Split(parts[1], Ascii.comma)[1]
                 values == Split(parts[2], Ascii.comma)
             IN  IF user_id = user THEN [current_user |-> user, printed |-> <<>>]
                 ELSE IF Len(values) # 4 \/ \E i \in DOMAIN values : ~IsInt(values[i])
                 THEN [current_user |-> user_id, printed |-> <<>>]
                 ELSE [current_user |-> user_id,
                       printed |-> <<FormattedOutput(user_id,
                                        ParseInt(values[1]), ParseInt(values[2]),
                                        ParseInt(values[3]), ParseInt(values[4]))>>]

\* longest input of the aggregation job, in lines
MaxAggLines == 3

\* 'a\tt\tpost', 'a\tt\tLIKE', 'a\tt\tcomment', 'b\tt\tshare', 'b\tt\tview'
\* (an action type that is not counted), 'a\tt' (two fields), and
\* 'a,b\tt\tpost' (a user id with a comma)
AggregationLines ==
    { <<97, 9, 116, 9, 112, 111, 115, 116>>,
      <<97, 9, 116, 9, 76, 73, 75, 69>>,
      <<97, 9, 116, 9, 99, 111, 109, 109, 101, 110, 116>>,
      <<98, 9, 116, 9, 115, 104, 97, 114, 101>>,
      <<98, 9, 116, 9, 118, 105, 101, 119>>,
      <<97, 9, 116>>,
      <<97, 44, 98, 9, 116, 9, 112, 111, 115, 116>> }

\* the join job, the skew detector and the workflow are idle
OthersIdle == JoinIdle /\ DetectorIdle /\ WorkflowIdle

\* the aggregation mapper has been started on its input
InitAggregation ==
    /\ pc = "agg_map"
    /\ agg_input \in SeqsOf(AggregationLines, 0, MaxAggLines)
    /\ agg_read = 0
    /\ user_action_counts = <<>>
    /\ agg_mapper_output = <<>>
    /\ agg_sorted_lines = <<>>
    /\ agg_pos = 0
    /\ agg_current_user = None
    /\ agg_output = <<>>
    /\ OthersIdle
    /\ TrendingIdle
    /\ CleansingIdle

\* the mapper reads one line
AggMapLine ==
    /\ pc = "agg_map"
    /\ agg_read < Len(agg_input)
    /\ user_action_counts' =
           AggregationMapper_process_line(user_action_counts, agg_input[agg_read + 1])
    /\ agg_read' = agg_read + 1
    /\ UNCHANGED <<pc, agg_input, agg_mapper_output, agg_sorted_lines, agg_pos,
                   agg_current_user, agg_output, trendingVars, cleansingVars, joinVars,
                   detectorVars, workflowVars>>

\* the mapper at the end of its input: 'Emit aggregated results'
AggMapEmit ==
    /\ pc = "agg_map"
    /\ agg_read = Len(agg_input)
    /\ agg_mapper_output' =
           PrintLines([i \in DOMAIN user_action_counts |->
                          AggregationMapper_record(user_action_counts[i])])
    /\ pc' = "agg_sort"
    /\ UNCHANGED <<agg_input, agg_read, user_action_counts, agg_sorted_lines,
                   agg_pos, agg_current_user, agg_output, trendingVars, cleansingVars, joinVars,
                   detectorVars, workflowVars>>

\* SingleInputJob.execute between mapper and reducer: an empty map output
\* ends the job with an empty output file, otherwise the lines are sorted
\* and fed to the reducer
AggSort ==
    /\ pc = "agg_sort"
    /\ IF Strip(agg_mapper_output) = <<>>
       THEN /\ pc' = "agg_done"
            /\ UNCHANGED agg_sorted_lines
       ELSE /\ pc' = "agg_reduce"
            /\ agg_sorted_lines' =
                   StdinLines(Join(SortLines(agg_mapper_output), Ascii.nl))
    /\ UNCHANGED <<agg_input, agg_read, user_action_counts, agg_mapper_output,
                   agg_pos, agg_current_user, agg_output, trendingVars, cleansingVars, joinVars,
                   detectorVars, workflowVars>>

\* the reducer reads one line
AggReduceLine ==
    /\ pc = "agg_reduce"
    /\ agg_pos < Len(agg_sorted_lines)
    /\ LET r == AggregationReducer_process_line(agg_current_user,
                                                agg_sorted_lines[agg_pos + 1])
       IN  /\ agg_current_user' = r.current_user
           /\ agg_output' = agg_output \o r.printed
    /\ agg_pos' = agg_pos + 1
    /\ UNCHANGED <<pc, agg_input, agg_read, user_action_counts, agg_mapper_output,
                   agg_sorted_lines, trendingVars, cleansingVars, joinVars, detectorVars,
                   workflowVars>>

\* the reducer at the end of its input: it exits and its output is written
AggReduceEnd ==
    /\ pc = "agg_reduce"
    /\ agg_pos = Len(agg_sorted_lines)
    /\ pc' = "agg_done"
    /\ UNCHANGED <<aggregationVars, trendingVars, cleansingVars, joinVars, detectorVars,
                   workflowVars>>

NextAggregation ==
    \/ AggMapLine
    \/ AggMapEmit
    \/ AggSort
    \/ AggReduceLine
    \/ AggReduceEnd

SpecAggregation == InitAggregation /\ [][NextAggregation]_vars

---------------------------------------------------------------------------
(* The trending job: trending_content_mapper.py, trending_content_combiner.py *)
(* and trending_content_reducer.py with the two sorts of                   *)
(* SingleInputJob.execute.  A score is a number of hundredths: the weights *)
(* are 1.0 and 1.5 and the scores are printed with two decimals.           *)

\* TrendingMapper.weights, in hundredths: {'like': 1.0, 'share': 1.5}
Weight(action_type) ==
    IF action_type = ActionTypes.like THEN 100
    ELSE IF action_type = ActionTypes.share THEN 150
    ELSE 0

\* sub in s, for strings
Contains(s, sub) ==
    \E i \in 1..(Len(s) - Len(sub) + 1) : SubSeq(s, i, i + Len(sub) - 1) = sub

\* f"{score:.2f}" for a score in hundredths
Format2f(score) ==
    Str(score \div 100) \o <<46>>
        \o <<Ascii.zero + ((score % 100) \div 10), Ascii.zero + (score % 10)>>

\* the string is digits, a point and two digits: what .2f prints, which
\* float() accepts
IsFloat(s) ==
    /\ Len(s) >= 4
    /\ s[Len(s) - 2] = 46
    /\ IsInt(SubSeq(s, 1, Len(s) - 3))
    /\ IsInt(SubSeq(s, Len(s) - 1, Len(s)))

\* float(s) in hundredths, for such a string
ParseFloat(s) ==
    100 * ParseInt(SubSeq(s, 1, Len(s) - 3)) + ParseInt(SubSeq(s, Len(s) - 1, Len(s)))

\* dict[key] += amount on a defaultdict(float) kept in insertion order
AddTo(dict, key, amount) ==
    IF \E i \in DOMAIN dict : dict[i].key = key
    THEN [i \in DOMAIN dict |->
             IF dict[i].key = key
             THEN [key |-> key, value |-> dict[i].value + amount]
             ELSE dict[i]]
    ELSE Append(dict, [key |-> key, value |-> amount])

\* TrendingMapper.process_record over the fields of one line: the engagement
\* dictionary after it
TrendingMapper_process_record(engagement, line) ==
    LET fields == Split(Strip(line), Ascii.tab)
    IN  IF Len(fields) < 5 THEN engagement
        ELSE IF Weight(Lower(fields[3])) = 0 THEN engagement
        ELSE AddTo(engagement, fields[4], Weight(Lower(fields[3])))

\* main() of the mapper up to emit_results: the dictionary over all lines
RECURSIVE TrendingMapper_main(_, _)
TrendingMapper_main(engagement, lines) ==
    IF lines = <<>> THEN engagement
    ELSE TrendingMapper_main(TrendingMapper_process_record(engagement, Head(lines)),
                             Tail(lines))

\* emit_results of the mapper and of the combiner: f"{content_id}\t{x:.2f}"
EmitResults(dict) ==
    PrintLines([i \in DOMAIN dict |->
                   dict[i].key \o <<Ascii.tab>> \o Format2f(dict[i].value)])

\* '_like' and '_share'
LikeMark == <<95>> \o ActionTypes.like

ShareMark == <<95>> \o ActionTypes.share

\* TrendingCombiner.process_line: the engagement counts after the line; a
\* line that does not split in two or whose value float() rejects is an error
TrendingCombiner_process_line(counts, line) ==
    LET parts == Split(Strip(line), Ascii.tab)
    IN  IF Len(parts) # 2 \/ ~IsFloat(parts[Len(parts)]) THEN counts
        ELSE LET value == ParseFloat(parts[2])
                 weighted == IF Contains(parts[1], LikeMark) THEN value
                             ELSE IF Contains(parts[1], ShareMark)
                             THEN (value * 3) \div 2
                             ELSE value
             IN  AddTo(counts, parts[1], weighted)

\* main() of the combiner up to emit_results
RECURSIVE TrendingCombiner_main(_, _)
TrendingCombiner_main(counts, lines) ==
    IF lines = <<>> THEN counts
    ELSE TrendingCombiner_main(TrendingCombiner_process_line(counts, Head(lines)),
                               Tail(lines))

\* TrendingReducer.process_record accepts the line: it splits in two at the
\* tabs and int() accepts the engagement
TrendingReducer_accepts(line) ==
    LET parts == Split(Strip(line), Ascii.tab)
    IN  Len(parts) = 2 /\ IsInt(parts[2])

\* the p-th percentile of the values as numpy.percentile computes it (linear
\* interpolation between the closest ranks), times 100
RECURSIVE SortedNumbers(_)
SortedNumbers(values) ==
    IF values = <<>> THEN <<>>
    ELSE LET least == CHOOSE i \in DOMAIN values :
                          \A j \in DOMAIN values : values[i] <= values[j]
         IN  <<values[least]>>
             \o SortedNumbers([k \in 1..(Len(values) - 1) |->
                                  IF k < least THEN values[k] ELSE values[k + 1]])

Percentile(values, p) ==
    LET ordered == SortedNumbers(values)
        rank    == p * (Len(values) - 1)
        lower   == rank \div 100
        part    == rank % 100
    IN  IF part = 0 THEN 100 * ordered[lower + 1]
        ELSE 100 * ordered[lower + 1]
             + part * (ordered[lower + 2] - ordered[lower + 1])

\* TrendingReducer.threshold_value: the 90th percentile by default
threshold_value == 90

\* TrendingReducer.calculate_threshold with the default strategy, times 100:
\* 0 when nothing was accepted
calculate_threshold(values) ==
    IF values = <<>> THEN 0 ELSE Percentile(values, threshold_value)

\* longest input of the trending job, in lines
MaxTrendLines == 3

\* 'u\tt\tlike\tc\t{}', 'u\tt\tSHARE\tc\tx', 'u\tt\tshare\td_share\t{}',
\* 'u\tt\tlike' (three fields), 'u\tt\tpost\tc\t{}' (an action without weight).
\* The metadata are '{}' and 'x', which is no JSON: parse_metadata returns {}
\* for both, so no record carries an engagement_boost
TrendingLines ==
    { <<117, 9, 116, 9, 108, 105, 107, 101, 9, 99, 9, 123, 125>>,
      <<117, 9, 116, 9, 83, 72, 65, 82, 69, 9, 99, 9, 120>>,
      <<117, 9, 116, 9, 115, 104, 97, 114, 101, 9, 100, 95, 115, 104, 97, 114,
        101, 9, 123, 125>>,
      <<117, 9, 116, 9, 108, 105, 107, 101>>,
      <<117, 9, 116, 9, 112, 111, 115, 116, 9, 99, 9, 123, 125>> }

\* the trending mapper has been started on its input
InitTrending ==
    /\ pc = "trend_map"
    /\ trend_input \in SeqsOf(TrendingLines, 0, MaxTrendLines)
    /\ trend_mapper_output = <<>>
    /\ trend_sorted_lines = <<>>
    /\ trend_combiner_output = <<>>
    /\ trend_pos = 0
    /\ content_data = <<>>
    /\ error_count = 0
    /\ trend_output = <<>>
    /\ OthersIdle
    /\ AggregationIdle
    /\ CleansingIdle

\* the trending mapper run to completion
TrendMap ==
    /\ pc = "trend_map"
    /\ trend_mapper_output' = EmitResults(TrendingMapper_main(<<>>, trend_input))
    /\ pc' = "trend_sort"
    /\ UNCHANGED <<trend_input, trend_sorted_lines, trend_combiner_output,
                   trend_pos, content_data, error_count, trend_output,
                   aggregationVars, cleansingVars, joinVars, detectorVars, workflowVars>>

\* SingleInputJob.execute between mapper and combiner: an empty map output
\* ends the job with an empty output file, otherwise the lines are sorted
TrendSort ==
    /\ pc = "trend_sort"
    /\ IF Strip(trend_mapper_output) = <<>>
       THEN /\ pc' = "trend_done"
            /\ UNCHANGED trend_sorted_lines
       ELSE /\ pc' = "trend_combine"
            /\ trend_sorted_lines' = SortLines(trend_mapper_output)
    /\ UNCHANGED <<trend_input, trend_mapper_output, trend_combiner_output,
                   trend_pos, content_data, error_count, trend_output,
                   aggregationVars, cleansingVars, joinVars, detectorVars, workflowVars>>

\* the combiner run to completion over the sorted map output, and the second
\* sort of execute(): the lines the reducer reads
TrendCombine ==
    /\ pc = "trend_combine"
    /\ LET printed ==
               EmitResults(TrendingCombiner_main(<<>>,
                   StdinLines(Join(trend_sorted_lines, Ascii.nl))))
       IN  /\ trend_combiner_output' = printed
           /\ trend_sorted_lines' =
                  StdinLines(Join(SortLines(printed), Ascii.nl))
    /\ pc' = "trend_reduce"
    /\ UNCHANGED <<trend_input, trend_mapper_output, trend_pos, content_data,
                   error_count, trend_output, aggregationVars, cleansingVars, joinVars,
                   detectorVars, workflowVars>>

\* the reducer reads one line: TrendingReducer.process_record
TrendReduceLine ==
    /\ pc = "trend_reduce"
    /\ trend_pos < Len(trend_sorted_lines)
    /\ LET line == trend_sorted_lines[trend_pos + 1]
           parts == Split(Strip(line), Ascii.tab)
       IN  IF TrendingReducer_accepts(line)
           THEN /\ content_data' =
                       Append(content_data, <<parts[1], ParseInt(parts[2])>>)
                /\ UNCHANGED error_count
           ELSE /\ error_count' = error_count + 1
                /\ UNCHANGED content_data
    /\ trend_pos' = trend_pos + 1
    /\ UNCHANGED <<pc, trend_input, trend_mapper_output, trend_sorted_lines,
                   trend_combiner_output, trend_output, aggregationVars, cleansingVars,
                   joinVars, detectorVars, workflowVars>>

\* the reducer at the end of its input: calculate_threshold and emit_results
TrendReduceEmit ==
    /\ pc = "trend_reduce"
    /\ trend_pos = Len(trend_sorted_lines)
    /\ LET threshold ==
               calculate_threshold([i \in DOMAIN content_data |-> content_data[i][2]])
           trending ==
               SelectSeq(content_data, LAMBDA d : 100 * d[2] >= threshold)
       IN  trend_output' =
               [i \in DOMAIN trending |->
                   trending[i][1] \o <<Ascii.tab>> \o Str(trending[i][2])]
    /\ pc' = "trend_done"
    /\ UNCHANGED <<trend_input, trend_mapper_output, trend_sorted_lines,
                   trend_combiner_output, trend_pos, content_data, error_count,
                   aggregationVars, cleansingVars, joinVars, detectorVars, workflowVars>>

NextTrending ==
    \/ TrendMap
    \/ TrendSort
    \/ TrendCombine
    \/ TrendReduceLine
    \/ TrendReduceEmit

SpecTrending == InitTrending /\ [][NextTrending]_vars

---------------------------------------------------------------------------
\* The cleansing mapper (cleansing_mapper.py)

\* increment() that counts every counter as a discard
DataQualityCounters_increment_CountsAll(m, counter_name) ==
    [m EXCEPT ![counter_name] = @ + 1, !.total_discarded = @ + 1]

\* DataQualityCounters.increment
DataQualityCounters_increment(m, counter_name) ==
    LET counted == [m EXCEPT ![counter_name] = @ + 1]
    IN  IF counter_name # "total_processed"
        THEN [counted EXCEPT !.total_discarded = @ + 1]
        ELSE counted

IsDigit(c) == c \in 48..57

\* TIMESTAMP_PATTERN.match: ^\d{4}-\d{2}-\d{2}T\d{2}:\d{2}:\d{2}Z?$ over
\* ASCII text without a line end
MatchesTimestampPattern(ts) ==
    /\ Len(ts) \in {19, 20}
    /\ \A i \in {1, 2, 3, 4, 6, 7, 9, 10, 12, 13, 15, 16, 18, 19} : IsDigit(ts[i])
    /\ ts[5] = 45 /\ ts[8] = 45
    /\ ts[11] = 84
    /\ ts[14] = Ascii.colon /\ ts[17] = Ascii.colon
    /\ Len(ts) = 20 => ts[20] = 90

\* the days of the month in the year
DaysIn(year, month) ==
    IF month = 2
    THEN (IF year % 4 = 0 /\ (year % 100 # 0 \/ year % 400 = 0) THEN 29 ELSE 28)
    ELSE IF month \in {4, 6, 9, 11} THEN 30 ELSE 31

\* datetime.strptime(clean_ts, '%Y-%m-%dT%H:%M:%S') raises no ValueError, for
\* a text that matches the pattern
IsDateTime(ts) ==
    LET year   == ParseInt(SubSeq(ts, 1, 4))
        month  == ParseInt(SubSeq(ts, 6, 7))
        day    == ParseInt(SubSeq(ts, 9, 10))
        hour   == ParseInt(SubSeq(ts, 12, 13))
        minute == ParseInt(SubSeq(ts, 15, 16))
        second == ParseInt(SubSeq(ts, 18, 19))
    IN  /\ year >= 1
        /\ month \in 1..12
        /\ day \in 1..DaysIn(year, month)
        /\ hour <= 23
        /\ minute <= 59
        /\ second <= 61

\* RecordValidator.validate_timestamp
validate_timestamp(timestamp_str) ==
    IF ~MatchesTimestampPattern(timestamp_str) THEN FALSE
    ELSE IsDateTime(timestamp_str)

\* the text from position i starts with the word
StartsAt(s, i, word) ==
    i + Len(word) - 1 <= Len(s) /\ SubSeq(s, i, i + Len(word) - 1) = word

\* the position after the JSON string that starts at i, 0 if there is none
\* (strings without escapes)
JsonString(s, i) ==
    IF i > Len(s) \/ s[i] # 34 THEN 0
    ELSE LET close == FindFrom(s, 34, i + 1)
         IN  IF close = 0 THEN 0 ELSE close + 1

\* the position after the digits that start at i
RECURSIVE AfterDigits(_, _)
AfterDigits(s, i) ==
    IF i <= Len(s) /\ IsDigit(s[i]) THEN AfterDigits(s, i + 1) ELSE i

\* the position after the JSON integer that starts at i, 0 if there is none
JsonInt(s, i) ==
    LET first == IF i <= Len(s) /\ s[i] = 45 THEN i + 1 ELSE i
    IN  IF first > Len(s) \/ ~IsDigit(s[first]) THEN 0
        ELSE IF s[first] = Ascii.zero THEN first + 1
        ELSE AfterDigits(s, first)

\* the position after the JSON value that starts at i, 0 if there is none:
\* what the decoder of json.loads scans, for texts without white space,
\* escapes, fractions and exponents
RECURSIVE JsonValue(_, _)
RECURSIVE JsonElements(_, _)
RECURSIVE JsonMembers(_, _)
JsonValue(s, i) ==
    IF i > Len(s) THEN 0
    ELSE IF s[i] = 34 THEN JsonString(s, i)
    ELSE IF s[i] = 123
         THEN (IF i < Len(s) /\ s[i + 1] = 125 THEN i + 2 ELSE JsonMembers(s, i + 1))
    ELSE IF s[i] = 91
         THEN (IF i < Len(s) /\ s[i + 1] = 93 THEN i + 2 ELSE JsonElements(s, i + 1))
    ELSE IF StartsAt(s, i, <<110, 117, 108, 108>>) THEN i + 4
    ELSE IF StartsAt(s, i, <<116, 114, 117, 101>>) THEN i + 4
    ELSE IF StartsAt(s, i, <<102, 97, 108, 115, 101>>) THEN i + 5
    ELSE JsonInt(s, i)

\* the values of an array from position i up to its ']'
JsonElements(s, i) ==
    LET after == JsonValue(s, i)
    IN  IF after = 0 \/ after > Len(s) THEN 0
        ELSE IF s[after] = Ascii.comma THEN JsonElements(s, after + 1)
        ELSE IF s[after] = 93 THEN after + 1
        ELSE 0

\* the "key":value pairs of an object from position i up to its '}'
JsonMembers(s, i) ==
    LET key == JsonString(s, i)
    IN  IF key = 0 \/ key > Len(s) \/ s[key] # Ascii.colon THEN 0
        ELSE LET after == JsonValue(s, key + 1)
             IN  IF after = 0 \/ after > Len(s) THEN 0
                 ELSE IF s[after] = Ascii.comma THEN JsonMembers(s, after + 1)
                 ELSE IF s[after] = 125 THEN after + 1
                 ELSE 0

\* RecordValidator.validate_metadata: json.loads raises no JSONDecodeError
validate_metadata(json_str) == JsonValue(json_str, 1) = Len(json_str) + 1

\* process_record(line, counters): the counters after it and what it
\* returns, <<>> for None. raised: json.loads raises an exception that is
\* not a JSONDecodeError (a RecursionError), which the except clause of
\* process_record catches
process_record(line, counters, raised) ==
    LET counted == DataQualityCounters_increment(counters, "total_processed")
        fields  == Split(Strip(line), Ascii.tab)
        discard(reason) ==
            [counters |-> DataQualityCounters_increment(counted, reason),
             returned |-> <<>>]
    IN  IF Len(fields) < 5 THEN discard("missing_fields")
        ELSE IF ~validate_timestamp(fields[1]) THEN discard("invalid_timestamp")
        ELSE IF raised THEN discard("processing_errors")
        ELSE IF ~validate_metadata(fields[5]) THEN discard("malformed_json")
        ELSE [counters |-> counted,
              returned |-> <<Join(<<fields[2], fields[1], fields[3], fields[4],
                                    fields[5]>>, Ascii.tab)>>]

\* most lines in an input of the cleansing mapper
MaxCleanLines == 3

\* log lines: a valid record '2024-02-29T10:00:00Z\tu\tlike\tc\t{}'; one of
\* three fields; one whose timestamp has a blank for the 'T'; one with the
\* date 2023-02-29; one with the metadata '{"k":'; a valid record of six
\* fields with the metadata '{"k":[1,"v"]}'; an empty line
CleansingLines ==
    LET ts   == <<50, 48, 50, 52, 45, 48, 50, 45, 50, 57, 84, 49, 48, 58, 48, 48,
                  58, 48, 48>>
        rest == <<9, 117, 9, 108, 105, 107, 101, 9, 99, 9>>
    IN  {ts \o <<90>> \o rest \o <<123, 125, 10>>,
         ts \o <<9, 117, 9, 108, 105, 107, 101, 10>>,
         [ts EXCEPT ![11] = 32] \o rest \o <<123, 125, 10>>,
         [ts EXCEPT ![4] = 51] \o rest \o <<123, 125, 10>>,
         ts \o rest \o <<123, 34, 107, 34, 58, 10>>,
         ts \o rest \o <<123, 34, 107, 34, 58, 91, 49, 44, 34, 118, 34, 93, 125,
                         9, 120, 10>>,
         <<10>>}

\* main() of the cleansing mapper is about to read its standard input
InitCleansing ==
    /\ pc = "clean"
    /\ clean_input \in SeqsOf(CleansingLines, 0, MaxCleanLines)
    /\ clean_read = 0
    /\ metrics = NoMetrics
    /\ clean_output = <<>>
    /\ OthersIdle
    /\ AggregationIdle
    /\ TrendingIdle

\* one turn of 'for line in sys.stdin' in main: the record is processed and
\* printed if one is returned
CleanLine ==
    /\ pc = "clean"
    /\ clean_read < Len(clean_input)
    /\ \E raised \in BOOLEAN :
          LET r == process_record(clean_input[clean_read + 1], metrics, raised)
          IN  /\ metrics' = r.counters
              /\ clean_output' = clean_output \o r.returned
    /\ clean_read' = clean_read + 1
    /\ UNCHANGED <<pc, clean_input, aggregationVars, trendingVars, joinVars,
                   detectorVars, workflowVars>>

\* the end of the input: counters.report()
CleanReport ==
    /\ pc = "clean"
    /\ clean_read = Len(clean_input)
    /\ pc' = "clean_done"
    /\ UNCHANGED <<cleansingVars, aggregationVars, trendingVars, joinVars,
                   detectorVars, workflowVars>>

NextCleansing ==
    \/ CleanLine
    \/ CleanReport

SpecCleansing == InitCleansing /\ [][NextCleansing]_vars

---------------------------------------------------------------------------
(* Vocabulary of the properties *)

\* the user ids the activity mapper extracts from its valid input lines
\* (ActivityMapper.process_line: fields = line.strip().split('\t', 1))
ActivityUserIds ==
    {SplitFirst(Strip(activity_input[i]), Ascii.tab)[1] :
        i \in {j \in DOMAIN activity_input :
                 Len(SplitFirst(Strip(activity_input[j]), Ascii.tab)) = 2}}

\* the user ids the profile mapper extracts from its input lines
\* (ProfileMapper.process_line: extract_user_id(fields[0]))
ProfileUserIds ==
    {extract_user_id(SplitFirst(Strip(profile_input[i]), Ascii.tab)[1]) :
        i \in DOMAIN profile_input}

\* the keys listed in the skewed-key configuration
ConfiguredKeys ==
    IF skewed_keys_env = <<>> THEN {}
    ELSE Range(Split(skewed_keys_env, Ascii.comma))

MappersDone == pc \notin {"map_activity", "map_profile"}

Sorting == pc \in {"start_reduce", "reduce", "done"}

\* the text of a line before / after its first tab
KeyField(line) == SplitFirst(line, Ascii.tab)[1]

HasTab(line) == Find(line, Ascii.tab) # 0

PayloadField(line) == SplitFirst(line, Ascii.tab)[2]

\* a record of the join stream "Key<TAB>Tag:Payload" with the given tag
IsTagged(line, tag) ==
    /\ HasTab(line)
    /\ Len(PayloadField(line)) >= 2
    /\ PayloadField(line)[1] = tag
    /\ PayloadField(line)[2] = Ascii.colon

\* the positions of the reducer's input the reducer accepts as records
Accepted == {i \in DOMAIN reducer_input : ParseOk(reducer_input[i])}

NormalizedKeyAt(i) == normalize_user_id(parse_line(reducer_input[i]).user_id)

TagAt(i) == parse_line(reducer_input[i]).data_type

\* the number of joined records printed with key k
Emitted(k) ==
    Cardinality({i \in DOMAIN reducer_output : KeyField(reducer_output[i]) = k})

TabCount(line) == Cardinality({i \in DOMAIN line : line[i] = Ascii.tab})

\* the reducer is about to read the line at pos + 1
Reading == pc = "reduce" /\ pos < Len(reducer_input)

ReducerStateUnchanged ==
    /\ current_user' = current_user
    /\ current_record' = current_record
    /\ reducer_output' = reducer_output

---------------------------------------------------------------------------
(* Properties *)

\* C1: over a stream in sorted order, after the end-of-stream flush, a
\* normalized key with records of only tag A or only tag P has no joined
\* record, and a normalized key with at least one A and at least one P record
\* has exactly one joined record.
C1_JoinInnerSemantics ==
    (pc = "done" /\ reducer_input = Sorted(reducer_input)) =>
        \A i \in Accepted :
            LET k == NormalizedKeyAt(i)
                hasA == \E j \in Accepted :
                            NormalizedKeyAt(j) = k /\ TagAt(j) = Ascii.A
                hasP == \E j \in Accepted :
                            NormalizedKeyAt(j) = k /\ TagAt(j) = Ascii.P
            IN  /\ (hasA /\ hasP) => Emitted(k) = 1
                /\ (hasA # hasP) => Emitted(k) = 0

\* C2: end to end, a key listed in the skewed-key configuration and present
\* in both datasets has exactly one joined record with that key.
C2_OneRecordPerSkewedKey ==
    pc = "done" =>
        \A k \in ConfiguredKeys \cap ActivityUserIds \cap ProfileUserIds :
            Emitted(k) = 1

\* C3: the joined output with numSalts = 10 is the joined output of the same
\* datasets and skewed-key set with numSalts = 1.
C3_SaltingIdempotence ==
    pc = "done" =>
        reducer_output =
            JoinJob_output(activity_input, profile_input, skewed_keys_env, 1)

\* C4: in the globally sorted join stream no record whose normalized key
\* differs from k lies between two records whose normalized key is k.
C4_NormalizedKeysContiguous ==
    Sorting =>
        \A i, j, l \in {n \in DOMAIN sorted_lines : ParseOk(sorted_lines[n])} :
            (/\ i < j
             /\ j < l
             /\ normalize_user_id(parse_line(sorted_lines[i]).user_id)
                  = normalize_user_id(parse_line(sorted_lines[l]).user_id))
            => normalize_user_id(parse_line(sorted_lines[j]).user_id)
                 = normalize_user_id(parse_line(sorted_lines[i]).user_id)

\* C5: for every key the mappers hand to their salter, the salter returns
\* key_0 .. key_(numSalts-1), distinct and in index order, when the key is in
\* the skewed-key set and [key] otherwise, and the activity-side and the
\* profile-side salter return the same list.
C5_SalterContract ==
    MappersDone =>
        \A k \in ActivityUserIds \cup ProfileUserIds :
            LET a == SkewHandler_process_key(
                         k, SkewHandler_load_skewed_keys(skewed_keys_env), NumSalts)
                p == ProfileSkewHandler_process_key(
                         k, ProfileSkewHandler_load_skewed_keys(skewed_keys_env),
                         NumSalts)
            IN  /\ a = p
                /\ IF k \in ConfiguredKeys
                   THEN /\ Len(a) = NumSalts
                        /\ \A i \in 1..NumSalts :
                               a[i] = k \o <<Ascii.underscore>> \o Str(i - 1)
                        /\ \A i, j \in 1..NumSalts : i # j => a[i] # a[j]
                   ELSE a = <<k>>

\* C6: for every key k of the skewed-key configuration that occurs in a valid
\* line of both datasets and every i in [0, numSalts), the combined map
\* output holds an A-tagged and a P-tagged record with key k_i.
C6_BothSidesSalted ==
    pc = "start_reduce" =>
        \A k \in ConfiguredKeys \cap ActivityUserIds \cap ProfileUserIds :
            \A i \in 0..(NumSalts - 1) :
                LET ki == k \o <<Ascii.underscore>> \o Str(i)
                IN  /\ \E n \in DOMAIN sorted_lines :
                           /\ KeyField(sorted_lines[n]) = ki
                           /\ IsTagged(sorted_lines[n], Ascii.A)
                    /\ \E n \in DOMAIN sorted_lines :
                           /\ KeyField(sorted_lines[n]) = ki
                           /\ IsTagged(sorted_lines[n], Ascii.P)

\* a skewed key of both datasets has reached the sorted stream with its last
\* salted variant on both sides
C6_Witness ==
    /\ pc = "start_reduce"
    /\ \E k \in ConfiguredKeys \cap ActivityUserIds \cap ProfileUserIds :
           LET k9 == k \o <<Ascii.underscore>> \o Str(NumSalts - 1)
           IN  /\ \E n \in DOMAIN sorted_lines :
                      KeyField(sorted_lines[n]) = k9 /\ IsTagged(sorted_lines[n], Ascii.A)
               /\ \E n \in DOMAIN sorted_lines :
                      KeyField(sorted_lines[n]) = k9 /\ IsTagged(sorted_lines[n], Ascii.P)

\* C7: normalization recovers the original key: normalize_user_id(k) = k and
\* normalize_user_id(k_i) = k for every original primary key k and every salt
\* index i.
C7_NormalizeRoundTrip ==
    MappersDone =>
        \A k \in ActivityUserIds \cup ProfileUserIds :
            /\ normalize_user_id(k) = k
            /\ \A i \in 1..NumSalts :
                   normalize_user_id(SaltedKeys(k, NumSalts)[i]) = k

\* C8 as stated: a line that does not have exactly one tab, or whose payload
\* does not start with a one-character tag followed by ':', emits nothing and
\* leaves the current key and both slots as they were.
C8_NotExactlyOneTabDropped ==
    [][(/\ Reading
        /\ LET line == reducer_input[pos + 1]
           IN  \/ TabCount(line) # 1
               \/ ~(\E tag \in Range(line) : IsTagged(line, tag)))
       => ReducerStateUnchanged]_vars

\* the line, stripped, has no tab, or the text after its first tab does not
\* have ':' as its second character
Malformed(line) ==
    LET s == Strip(line)
    IN  \/ ~HasTab(s)
        \/ Len(PayloadField(s)) < 2
        \/ PayloadField(s)[2] # Ascii.colon

\* C8 amended: a line that, stripped of surrounding whitespace, has no tab, or
\* whose text after the first tab does not have ':' as its second character,
\* emits nothing and leaves the current key and both slots as they were.
C8_MalformedLineDropped ==
    [][(Reading /\ Malformed(reducer_input[pos + 1])) => ReducerStateUnchanged]_vars

\* a malformed line has been read while a key was being accumulated
C8_Witness ==
    /\ pc = "reduce"
    /\ pos > 1
    /\ Malformed(reducer_input[pos])
    /\ ParseOk(reducer_input[pos - 1])
    /\ current_user # None
    /\ current_record # <<>>

\* C9: whenever the reducer prints a joined record, the accumulator it
\* finalizes has a non-empty profile payload and a non-empty activity payload.
C9_EmittedSlotsNonEmpty ==
    [][reducer_output' # reducer_output =>
        /\ current_record # <<>>
        /\ current_record[1].profile_data \notin {None, <<>>}
        /\ current_record[1].activity_data \notin {None, <<>>}]_vars

\* C10: every record of the activity mapper is Key<TAB>A:Payload and every
\* record of the profile mapper is Key<TAB>P:Payload, with a non-empty payload.
C10_TaggedRecordsValid ==
    MappersDone =>
        /\ \A line \in Range(StdinLines(activity_output)) :
               IsTagged(line, Ascii.A) /\ Len(PayloadField(line)) > 2
        /\ \A line \in Range(StdinLines(profile_output)) :
               IsTagged(line, Ascii.P) /\ Len(PayloadField(line)) > 2

\* the payload of the last record, among the first n lines of the reducer's
\* input, that the reducer accepts with normalized key k and the given tag;
\* None where there is no such record
LastPayload(k, tag, n) ==
    LET S == {i \in Accepted : i <= n /\ NormalizedKeyAt(i) = k /\ TagAt(i) = tag}
    IN  IF S = {} THEN None
        ELSE parse_line(reducer_input[CHOOSE i \in S : \A j \in S : j <= i]).data

\* C11: last write wins: whenever the reducer prints a joined record, it
\* prints one line, for the key of its accumulator, and each slot of that line
\* is the payload of the last record of that tag read so far for that
\* normalized key.
C11_LastWriteWins ==
    [][reducer_output' # reducer_output =>
         /\ Len(reducer_output') = Len(reducer_output) + 1
         /\ LastPayload(current_user, Ascii.P, pos) # None
         /\ LastPayload(current_user, Ascii.A, pos) # None
         /\ reducer_output'[Len(reducer_output')] =
                current_user \o <<Ascii.tab>> \o LastPayload(current_user, Ascii.P, pos)
                             \o <<Ascii.tab>> \o LastPayload(current_user, Ascii.A, pos)]_vars

\* the reducer has joined a stream of one normalized key in which two records
\* of the same tag carry different payloads
C11_Witness ==
    /\ pc = "done"
    /\ reducer_output # <<>>
    /\ \E i, j \in Accepted :
          /\ i < j
          /\ TagAt(i) = TagAt(j)
          /\ parse_line(reducer_input[i]).data # parse_line(reducer_input[j]).data
          /\ \A l \in Accepted : NormalizedKeyAt(l) = NormalizedKeyAt(i)

\* the permutations of 1..n
PermutationsOf(n) ==
    {f \in [1..n -> 1..n] : \A a, b \in 1..n : f[a] = f[b] => a = b}

\* lines with its lines i..j rearranged by the permutation f of 1..(j - i + 1)
Rearranged(lines, i, j, f) ==
    [l \in 1..Len(lines) |->
        IF l >= i /\ l <= j THEN lines[i - 1 + f[l - i + 1]] ELSE lines[l]]

\* lines i..j of the reducer's input are records of one normalized key in
\* which all A records carry one payload and all P records carry one payload
UniformGroup(i, j) ==
    /\ \A a \in i..j : a \in Accepted
    /\ \A a, b \in i..j :
          /\ NormalizedKeyAt(a) = NormalizedKeyAt(b)
          /\ TagAt(a) = TagAt(b) =>
                parse_line(reducer_input[a]).data = parse_line(reducer_input[b]).data

\* C12: order independence within a key group: where lines i..j of the
\* reducer's input are records of one normalized key with one payload per tag,
\* the reducer prints the same lines for every permutation of lines i..j.
C12_OrderIndependence ==
    pc = "done" =>
        \A i, j \in DOMAIN reducer_input :
            (i < j /\ UniformGroup(i, j)) =>
                \A f \in PermutationsOf(j - i + 1) :
                    JoinReducer_main(None, <<>>, Rearranged(reducer_input, i, j, f))
                        = reducer_output

\* the reducer has joined a stream that is one such group with both tags
C12_Witness ==
    /\ pc = "done"
    /\ reducer_output # <<>>
    /\ Len(reducer_input) >= 2
    /\ UniformGroup(1, Len(reducer_input))
    /\ \E a, b \in DOMAIN reducer_input : TagAt(a) # TagAt(b)

\* C13: the accumulator is finalized exactly at a change of normalized key
\* and at end-of-stream: a line read prints a joined record only if it parses
\* and its normalized key differs from the accumulator's, the record printed
\* is the accumulator's, a change of key prints the accumulator's record if
\* and only if both of its slots are filled, and so does the terminal flush.
C13_FinalizedOnKeyChange ==
    [][/\ (Reading /\ reducer_output' # reducer_output) =>
            /\ ParseOk(reducer_input[pos + 1])
            /\ normalize_user_id(parse_line(reducer_input[pos + 1]).user_id)
                   # current_user
            /\ KeyField(reducer_output'[Len(reducer_output')]) = current_user
       /\ (/\ Reading
           /\ ParseOk(reducer_input[pos + 1])
           /\ normalize_user_id(parse_line(reducer_input[pos + 1]).user_id)
                  # current_user
           /\ current_record # <<>>) =>
              (reducer_output' # reducer_output <=> is_complete(current_record[1]))
       /\ (pc = "reduce" /\ pc' = "done") =>
              (reducer_output' # reducer_output
                  <=> (current_record # <<>> /\ is_complete(current_record[1])))]_vars

\* the records the two map stages printed, in the order printed
MapperRecords ==
    ActivityMapper_main(activity_input, skewed_keys_env, NumSalts)
        \o ProfileMapper_main(profile_input, skewed_keys_env, NumSalts)

\* the number of occurrences of x in the sequence s
Occurrences(s, x) == Cardinality({i \in DOMAIN s : s[i] = x})

IsPermutation(s, t) ==
    /\ Len(s) = Len(t)
    /\ \A x \in Range(s) \cup Range(t) : Occurrences(s, x) = Occurrences(t, x)

\* C14: the lines the join job sorts are a permutation of the records its map
\* stages printed, in non-decreasing order of the key field (the text before
\* the first tab), with the records of one literal key contiguous.
C14_SortedPermutationByKey ==
    pc = "start_reduce" =>
        /\ IsPermutation(sorted_lines, MapperRecords)
        /\ \A i, j \in DOMAIN sorted_lines :
              i < j => ~StrLess(KeyField(sorted_lines[j]), KeyField(sorted_lines[i]))
        /\ \A i, j, l \in DOMAIN sorted_lines :
              (i < j /\ j < l /\ KeyField(sorted_lines[i]) = KeyField(sorted_lines[l]))
                  => KeyField(sorted_lines[j]) = KeyField(sorted_lines[i])

\* the skew detector has printed its report
Reported == pc = "reported"

\* the number of input lines of the skew detector with key k
RecordsOf(k) ==
    Cardinality({i \in DOMAIN input_lines : DetectorKey(input_lines[i]) = k})

\* the keys the skew detector has counted
CountedKeys == {key_counter[i].key : i \in DOMAIN key_counter}

\* C15: for non-empty input the reported skewed keys are exactly the keys
\* whose count is strictly greater than
\* max(0.01 x total_records, 5 x total_records / unique_keys), for the
\* total_records and unique_keys of the same report: count > max(x, y) is
\* count > x and count > y, each cleared of its denominator.
C15_SkewedKeysExact ==
    (Reported /\ input_lines # <<>>) =>
        LET report == analysis[1]
        IN  /\ ~report.error
            /\ report.unique_keys = Cardinality(CountedKeys)
            /\ Range(report.skewed_keys) =
                   {k \in CountedKeys :
                       /\ 100 * RecordsOf(k) > report.total_records
                       /\ RecordsOf(k) * report.unique_keys
                              > 5 * report.total_records}

\* a report with a skewed key
C15_Witness ==
    /\ Reported
    /\ analysis[1].skewed_keys # <<>>

\* the input lines of the skew detector that have a tab
LinesWithTab == SelectSeq(input_lines, HasTab)

\* C16: the report of the skew detector is the report over its input with
\* the lines that have no tab removed: such lines add nothing to a count, to
\* total_records or to unique_keys.
C16_TablessLinesSkipped ==
    Reported =>
        analysis[1] = analyze_key_distribution(LinesWithTab, skew_threshold_factor,
                                               AverageMultiplier)

\* C17: given no input line the skew detector reports, without error,
\* total_records = 0, unique_keys = 0, skew_threshold = 0 and no skewed key.
C17_EmptyProfile ==
    (Reported /\ input_lines = <<>>) =>
        /\ ~analysis[1].error
        /\ analysis[1].total_records = 0
        /\ analysis[1].unique_keys = 0
        /\ analysis[1].skew_threshold.num = 0
        /\ analysis[1].skewed_keys = <<>>

\* the report over no input line
C17_Witness ==
    /\ Reported
    /\ input_lines = <<>>
    /\ total_records = 0

\* the skewed keys of the counted input had the threshold been computed with
\* the multiplier m of the average
SkewedWith(m) ==
    Range(Report(key_counter, total_records, skew_threshold_factor, m).skewed_keys)

\* C18: threshold monotonicity: over the counted input, for multipliers
\* m1 <= m2 of the average, the skewed keys with m2 are among the skewed keys
\* with m1.
C18_ThresholdMonotonic ==
    Reported =>
        \A m1, m2 \in 0..MaxMultiplier :
            m1 <= m2 => SkewedWith(m2) \subseteq SkewedWith(m1)

\* a counted input whose skewed keys the program's multiplier shrinks
C18_Witness ==
    /\ Reported
    /\ \E m \in 0..MaxMultiplier :
          /\ m < AverageMultiplier
          /\ SkewedWith(m) # {}
          /\ SkewedWith(AverageMultiplier) # SkewedWith(m)

\* the steps run() has called, in the order called
Calls ==
    LET called == SelectSeq(events, LAMBDA e : e[1] = "call")
    IN  [i \in DOMAIN called |-> called[i][2]]

IsPrefix(s, t) == Len(s) <= Len(t) /\ s = SubSeq(t, 1, Len(s))

\* every step called has returned before the next is called
OneStepAtATime ==
    \A i \in DOMAIN events :
        IF i % 2 = 1 THEN events[i][1] = "call"
        ELSE events[i] = <<"return", events[i - 1][2]>>

\* C19 as stated: in 'all' mode the steps are called in the order cleansing,
\* aggregation, skew analysis, trending, join, each after its predecessor has
\* returned.
C19_SkewAnalysisBeforeTrending ==
    args_job = "all" =>
        /\ IsPrefix(Calls, <<"cleansing", "aggregation", "skew_analysis",
                             "trending", "join">>)
        /\ OneStepAtATime

\* C19: in 'all' mode the steps are called in the order cleansing,
\* aggregation, trending, skew analysis, join, each after its predecessor has
\* returned: the skew analysis is called after the trending job has returned
\* and before the join job is called.
C19_StepsInOrder ==
    args_job = "all" =>
        /\ IsPrefix(Calls, <<"cleansing", "aggregation", "trending",
                             "skew_analysis", "join">>)
        /\ OneStepAtATime

\* an 'all' run that called all five steps and returned
C19_Witness ==
    /\ args_job = "all"
    /\ exit_status # None
    /\ Len(Calls) = 5

\* C20: a job whose execute() returns after one of its stage processes exited
\* with a non-zero return code returns failure.
C20_NonZeroExitFailsJob ==
    [][(/\ job_pc \notin {"none", "analysis"}
        /\ job_pc' = "none"
        /\ \E i \in DOMAIN returncodes' : returncodes'[i] # 0) => ~success']_vars

\* C21: in 'all' mode a job that returned failure is the last thing the run
\* did: it is the last job that returned, no job is running, and no job and no
\* skew analysis was called after its return.
C21_NoJobAfterFailure ==
    args_job = "all" =>
        \A i \in DOMAIN job_results :
            ~job_results[i] =>
                /\ i = Len(job_results)
                /\ job_pc = "none"
                /\ events[Len(events)][1] = "return"
                /\ events[Len(events)][2] # "skew_analysis"

\* an 'all' run whose aggregation job failed and that has returned
C21_Witness ==
    /\ args_job = "all"
    /\ job_results = <<TRUE, FALSE>>
    /\ exit_status # None

\* C22: when run() has returned, its exit code is 0 if and only if every job
\* it ran succeeded, and it is 1 if any stage process of the run exited
\* non-zero or any job returned failure.
C22_ExitCode ==
    exit_status # None =>
        /\ exit_status = <<0>> <=> \A i \in DOMAIN job_results : job_results[i]
        /\ (stage_failed \/ \E i \in DOMAIN job_results : ~job_results[i])
               => exit_status = <<1>>

\* the join map stages
JoinMapStages == {"activity_mapper", "profile_mapper"}

\* C23: in 'all' mode every join map stage is started after the skew detector
\* has run and reported (analysis holds its report), and with the skewed keys
\* the detector reports for the aggregation output file as its skewed-key
\* configuration.
C23_ConfigurationIsDetectorOutput ==
    args_job = "all" =>
        \A i \in DOMAIN started :
            started[i].stage \in JoinMapStages =>
                /\ analysis # <<>>
                /\ started[i].env = DetectorOutput(files[OutputOf("aggregation")])

\* C24: once the skew analysis has returned (it always fails), the skewed-key
\* configuration is empty, the run has not been failed by it: the join job is
\* the next thing called, run() does not return before calling it, and the
\* join stages are started with the empty configuration.
C24_FailedAnalysisLeavesJoinRunning ==
    \A i \in DOMAIN events :
        events[i] = <<"return", "skew_analysis">> =>
            /\ run_skewed_keys = <<>>
            /\ i = Len(events) =>
                   /\ success
                   /\ job_pc = "none"
                   /\ StepsOf(args_job)[step + 1] = "join"
            /\ exit_status # None => Calls[Len(Calls)] = "join"
            /\ \A k \in DOMAIN started :
                   started[k].step = "join" => started[k].env = <<>>

\* an 'all' run whose join job ran to its reducer after the failed analysis
C24_Witness ==
    /\ args_job = "all"
    /\ exit_status # None
    /\ \E k \in DOMAIN started :
           started[k].stage = "join_reducer" /\ started[k].env = <<>>

\* the process printed nothing (nothing but white space)
PrintedNothing(p) == p.stdout # None /\ Strip(p.stdout) = <<>>

\* the last stage the job at hand runs has exited: its reducer, or a mapper
\* of a single-input job that printed nothing
LastStageExited ==
    /\ started # <<>>
    /\ running = <<>>
    /\ LET last == started[Len(started)]
       IN  \/ last.stage \in {"reducer", "join_reducer"}
           \/ last.stage = "mapper" /\ PrintedNothing(last)

\* C25: a job that ran to its last stage and in which some stage (map,
\* combine or reduce) printed nothing has returned success, its output file
\* exists and is empty, and the run goes on: it is not failed, and does not
\* return before its last step.
C25_EmptyOutputIsNotFailure ==
    (LastStageExited /\ \E k \in DOMAIN started : PrintedNothing(started[k])) =>
        /\ job_pc = "none"
        /\ job_results[Len(job_results)]
        /\ files[OutputOf(CurrentStep)] = <<>>
        /\ success
        /\ exit_status # None => step = Len(StepsOf(args_job))

\* C26: every stage process started reads its standard input from a pipe
\* that carries exactly the stream prepared for it: the text of its input
\* file, the merged text of its input directory, or the sorted lines of the
\* stage before it.
C26_StageReadsPreparedStream ==
    \A k \in DOMAIN started :
        started[k].stdin = [piped |-> TRUE, data |-> started[k].prepared]

\* C27: at most one stage process is running, it is the one started last,
\* and every process started before it has exited with its output collected.
C27_OneStageAtATime ==
    /\ Len(running) <= 1
    /\ \A k \in DOMAIN started :
           IF k = Len(started) /\ running # <<>>
           THEN running = <<started[k].stage>> /\ started[k].stdout = None
           ELSE started[k].stdout # None /\ started[k].returncode # None

\* a trending job whose mapper and combiner have exited and whose reducer is
\* running
C27_Witness ==
    /\ Len(started) = 3
    /\ running = <<"reducer">>
    /\ started[1].stage = "mapper"
    /\ started[2].stage = "combiner"

\* no line of the sequence is less than a line before it
InSortedOrder(lns) ==
    \A i, j \in DOMAIN lns : i < j => ~StrLess(lns[j], lns[i])

\* the lines of a text that are not empty
NonEmptyLines(text) == SelectSeq(Split(text, Ascii.nl), LAMBDA l : l # <<>>)

\* the text printed by the stages whose output the k-th process of the job is
\* handed: the stage before it, or both map stages of the join
PrintedBefore(k) ==
    IF started[k].stage = "join_reducer"
    THEN started[k - 2].stdout \o <<Ascii.nl>> \o started[k - 1].stdout
    ELSE started[k - 1].stdout

\* C28: every combine and reduce stage started is handed lines in sorted
\* order, and they are the lines the stage (or the two map stages) before it
\* printed: the sort has run between the two, after the map stage and again
\* after the combine stage, and what is fed through the pipe is what was handed.
C28_ReducerInputSorted ==
    \A k \in DOMAIN started :
        started[k].stage \in {"combiner", "reducer", "join_reducer"} =>
            /\ InSortedOrder(Split(started[k].prepared, Ascii.nl))
            /\ IsPermutation(NonEmptyLines(started[k].prepared),
                             NonEmptyLines(PrintedBefore(k)))
            /\ started[k].stdin.piped =>
                   started[k].stdin.data = started[k].prepared

\* a trending reducer started after a combiner that printed its two records
\* out of order
C28_Witness ==
    \E k \in DOMAIN started :
        /\ started[k].stage = "reducer"
        /\ started[k - 1].stage = "combiner"
        /\ started[k - 1].stdout = DataText
        /\ started[k].stdin.piped
        /\ ~InSortedOrder(Split(Strip(DataText), Ascii.nl))

\* the first map stage of the step at hand has been started on the file and
\* handed its text
MapperReads(s, file) ==
    (step >= 1 /\ CurrentStep = s /\ started # <<>>) =>
        /\ started[1].path = file
        /\ started[1].prepared = files[file]

\* C29 as stated: in 'all' mode aggregation reads the cleansing output,
\* trending reads the output of the job before it (the aggregation output),
\* and the activity side of the join reads the aggregation output.
C29_EachJobReadsItsPredecessor ==
    args_job = "all" =>
        /\ MapperReads("aggregation", OutputOf("cleansing"))
        /\ MapperReads("trending", OutputOf("aggregation"))
        /\ MapperReads("join", OutputOf("aggregation"))

\* C29: in 'all' mode aggregation and trending both read the cleansing
\* output, and the activity side of the join reads the aggregation output.
C29_InputsInAllMode ==
    args_job = "all" =>
        /\ MapperReads("aggregation", OutputOf("cleansing"))
        /\ MapperReads("trending", OutputOf("cleansing"))
        /\ MapperReads("join", OutputOf("aggregation"))

\* an 'all' run whose trending mapper was handed the text the cleansing job
\* wrote, which differs from the aggregation output
C29_Witness ==
    /\ args_job = "all"
    /\ step = 3
    /\ CurrentStep = "trending"
    /\ started # <<>>
    /\ started[1].stdin = [piped |-> TRUE, data |-> files[OutputOf("cleansing")]]
    /\ files[OutputOf("cleansing")] # files[OutputOf("aggregation")]

\* a line with the tab separator once stripped: the primary key and a payload
ValidLine(line) == Len(SplitFirst(Strip(line), Ascii.tab)) = 2

\* the primary keys of the valid lines of an input, in input order: the user
\* id before the first tab on the activity side, before the first comma of
\* that field on the profile side
ActivityKeys ==
    LET valid == SelectSeq(activity_input, ValidLine)
    IN  [i \in DOMAIN valid |-> KeyField(Strip(valid[i]))]

ProfileKeys ==
    LET valid == SelectSeq(profile_input, ValidLine)
    IN  [i \in DOMAIN valid |-> extract_user_id(KeyField(Strip(valid[i])))]

\* the keys of the records a map stage printed, in the order printed
KeysPrinted(text) ==
    LET records == StdinLines(text)
    IN  [i \in DOMAIN records |-> KeyField(records[i])]

\* C30: with an empty skewed-key configuration (an unset 'skewed.keys' reads
\* as empty) each join map stage prints, for every primary key, as many
\* records with that key as it has valid input lines with it, and no record
\* with any other key but that of a line that is not valid: one record per
\* valid line, under its unmodified primary key.
C30_NoSaltingWithoutConfiguration ==
    (skewed_keys_env = <<>> /\ MappersDone) =>
        /\ \A k \in Range(ActivityKeys) :
               Occurrences(KeysPrinted(activity_output), k) = Occurrences(ActivityKeys, k)
        /\ Range(KeysPrinted(activity_output)) \subseteq ActivityUserIds
        /\ \A k \in Range(ProfileKeys) :
               Occurrences(KeysPrinted(profile_output), k) = Occurrences(ProfileKeys, k)
        /\ Range(KeysPrinted(profile_output)) \subseteq ProfileUserIds

\* both map stages have run without a configuration over inputs of two valid
\* lines, one of them with a key that holds '_'
C30_Witness ==
    /\ skewed_keys_env = <<>>
    /\ MappersDone
    /\ Len(ActivityKeys) = 2
    /\ Len(ProfileKeys) = 2
    /\ \E i \in DOMAIN ActivityKeys : Find(ActivityKeys[i], Ascii.underscore) # 0

\* C31: each join map stage prints no record for an input line without the
\* tab separator and the records of every other line: what it has printed is
\* what it prints for its input with those lines removed.
C31_MalformedLinesDropped ==
    MappersDone =>
        /\ activity_output =
               PrintLines(ActivityMapper_main(SelectSeq(activity_input, ValidLine),
                                              skewed_keys_env, NumSalts))
        /\ profile_output =
               PrintLines(ProfileMapper_main(SelectSeq(profile_input, ValidLine),
                                             skewed_keys_env, NumSalts))

\* the user ids of the aggregation input: the first field of the lines with
\* at least three fields
AggUsers ==
    {Split(Strip(agg_input[i]), Ascii.tab)[1] :
        i \in {j \in DOMAIN agg_input :
                 Len(Split(Strip(agg_input[j]), Ascii.tab)) >= 3}}

\* the number of input lines of the user whose action type is the given one,
\* whatever its case
ActionCount(u, action) ==
    Cardinality({i \in DOMAIN agg_input :
        LET fields == Split(Strip(agg_input[i]), Ascii.tab)
        IN  /\ Len(fields) >= 3
            /\ fields[1] = u
            /\ Lower(fields[3]) = action})

\* C32: when the aggregation job is done its output holds, for every user id
\* of the input, exactly one record, which carries the number of the user's
\* lines of each action type, and it holds no other record.
C32_OneRecordPerUser ==
    pc = "agg_done" =>
        /\ Len(agg_output) = Cardinality(AggUsers)
        /\ \A u \in AggUsers :
               Occurrences(agg_output,
                   FormattedOutput(u, ActionCount(u, ActionTypes.post),
                                      ActionCount(u, ActionTypes.like),
                                      ActionCount(u, ActionTypes.comment),
                                      ActionCount(u, ActionTypes.share))) = 1

\* the records a trending stage printed
TrendRecords(text) == StdinLines(text)

\* C33: every record the trending mapper and the trending combiner printed
\* is one the reducer accepts, and when the job is done the reducer has
\* rejected nothing and every content the combiner printed has been taken in
\* and, with an engagement at or above the threshold, is in the output.
C33_TrendingRecordsAccepted ==
    /\ \A i \in DOMAIN TrendRecords(trend_mapper_output) :
           TrendingReducer_accepts(TrendRecords(trend_mapper_output)[i])
    /\ \A i \in DOMAIN TrendRecords(trend_combiner_output) :
           TrendingReducer_accepts(TrendRecords(trend_combiner_output)[i])
    /\ pc = "trend_done" =>
           /\ error_count = 0
           /\ Len(content_data) = Len(TrendRecords(trend_combiner_output))
           /\ \A i \in DOMAIN content_data :
                  100 * content_data[i][2]
                      >= calculate_threshold([j \in DOMAIN content_data |->
                                                 content_data[j][2]])
                  => \E k \in DOMAIN trend_output :
                         KeyField(trend_output[k]) = content_data[i][1]

\* C34: in 'all' mode every join map stage is started with the empty
\* skewed-key configuration, and a stage that read its input through the pipe
\* has printed no key but the keys of its input lines, one record per line.
C34_NoSaltingInAllMode ==
    args_job = "all" =>
        \A i \in DOMAIN started :
            started[i].stage \in JoinMapStages =>
                /\ started[i].env = <<>>
                /\ (started[i].stdin.piped /\ started[i].stdout \notin {None, <<>>}) =>
                       KeysPrinted(started[i].stdout) =
                           KeysPrinted(started[i].stdin.data)

\* an 'all' run whose profile mapper has printed the records of its two
\* input lines
C34_Witness ==
    /\ args_job = "all"
    /\ \E i \in DOMAIN started :
           /\ started[i].stage = "profile_mapper"
           /\ started[i].stdin.piped
           /\ started[i].stdout \notin {None, <<>>}
           /\ Len(KeysPrinted(started[i].stdout)) = 2

\* C35: for non-empty input the skew detector reports fewer than one fifth of
\* its unique keys as skewed, 5 x |skewed_keys| < unique_keys, and no skewed
\* key when there are at most 5 unique keys or all keys have the same count.
C35_FewerThanAFifthSkewed ==
    (Reported /\ input_lines # <<>>) =>
        LET report == analysis[1]
        IN  /\ 5 * Len(report.skewed_keys) < report.unique_keys
            /\ report.unique_keys <= 5 => report.skewed_keys = <<>>
            /\ (\A i, j \in DOMAIN key_counter :
                    key_counter[i].count = key_counter[j].count)
                   => report.skewed_keys = <<>>

\* a report over six unique keys, one of them skewed
C35_Witness ==
    /\ Reported
    /\ input_lines # <<>>
    /\ analysis[1].unique_keys = 6
    /\ Len(analysis[1].skewed_keys) = 1

\* the discards the cleansing mapper has counted by reason
DiscardsByReason ==
    metrics.invalid_timestamp + metrics.malformed_json + metrics.missing_fields
        + metrics.processing_errors

\* C36: after every line the cleansing mapper has processed, total_processed
\* is the number of lines read, total_discarded is the sum of the four
\* discard counters, and the number of printed records is
\* total_processed - total_discarded.
C36_CountersAccountForEveryLine ==
    /\ metrics.total_processed = clean_read
    /\ metrics.total_discarded = DiscardsByReason
    /\ Len(clean_output) = metrics.total_processed - metrics.total_discarded

\* three lines read: one printed, one discarded for its timestamp and one
\* for its metadata
C36_Witness ==
    /\ clean_read = 3
    /\ Len(clean_output) = 1
    /\ metrics.invalid_timestamp = 1
    /\ metrics.malformed_json = 1

\* the line is a well-formed record whose tag is neither A nor P
OtherTag(line) ==
    IF ParseOk(line) THEN parse_line(line).data_type \notin {Ascii.A, Ascii.P}
    ELSE FALSE

\* C37: over a sorted stream the reducer prints what it prints for the stream
\* with the well-formed records of a tag other than A and P removed.
C37_OtherTagsChangeNothing ==
    (pc = "done" /\ InSortedOrder(reducer_input)) =>
        reducer_output =
            JoinReducer_main(None, <<>>,
                             SelectSeq(reducer_input, LAMBDA l : ~OtherTag(l)))

\* the position of the first line of the reducer's input whose normalized
\* key is k, 0 if there is none
FirstAppearance(k) ==
    LET at == {i \in DOMAIN reducer_input :
                 IF ParseOk(reducer_input[i]) THEN NormalizedKeyAt(i) = k ELSE FALSE}
    IN  IF at = {} THEN 0 ELSE CHOOSE i \in at : \A j \in at : i <= j

\* C38: over a sorted stream the joined records are printed in strictly
\* increasing order of the first appearance of their key among the
\* normalized keys of the stream, and the key of each joined record is the
\* normalized key of a line of the stream.
C38_EmittedInKeyOrder ==
    InSortedOrder(reducer_input) =>
        /\ \A i \in DOMAIN reducer_output :
               FirstAppearance(KeyField(reducer_output[i])) # 0
        /\ \A i, j \in DOMAIN reducer_output :
               i < j => FirstAppearance(KeyField(reducer_output[i]))
                            < FirstAppearance(KeyField(reducer_output[j]))

\* the output files of the jobs
JobOutputs == OutputFiles \ {"output/merged_input.tmp"}

\* C39: an output file changes only in the step in which the job it is the
\* output of returns True, after its reduce stage or its empty map stage has
\* exited: a job that fails, at a stage that could not be started or an
\* input that could not be read, leaves its output file as it was.
C39_OutputWrittenOnlyOnSuccess ==
    [][\A f \in JobOutputs :
           files'[f] # files[f] =>
               IF step = 0 THEN FALSE
               ELSE IF CurrentStep = "skew_analysis" THEN FALSE
               ELSE /\ f = OutputOf(CurrentStep)
                    /\ running' = <<>>
                    /\ job_results' = Append(job_results, TRUE)]_vars

\* a job has failed after its map stage had run, at its next stage or input,
\* and its output file still holds what an earlier run left there
C39_Witness ==
    /\ step >= 1
    /\ job_results # <<>>
    /\ ~job_results[Len(job_results)]
    /\ job_pc = "none"
    /\ started # <<>>
    /\ IF CurrentStep = "skew_analysis" THEN FALSE
       ELSE files[OutputOf(CurrentStep)] = DataText

====
